---- MODULE Spec2Model ----
(***************************************************************************)
(* A model of spongefish's transcript machinery:                           *)
(*   - pattern/interaction.rs          Interaction, closes                 *)
(*   - pattern/interaction_pattern.rs  InteractionPattern::new / validate  *)
(*   - pattern/pattern_state.rs        PatternState (the recorder)         *)
(*   - pattern/pattern_player.rs       PatternPlayer (the replayer)        *)
(*   - duplex_sponge/mod.rs            DuplexSponge in overwrite mode      *)
(* A panic is modelled as the outcome of the call that raised it; the      *)
(* object keeps the fields it had when the panic was raised.               *)
(***************************************************************************)
EXTENDS Integers, Sequences, FiniteSets, TLC

VARIABLES
    alt,        \* the second (label, type name, length) triple this run draws interactions from
    rec,        \* PatternState: [interactions, finalized]
    rec_live,   \* "none" (never created), "live", "gone" (consumed or dropped)
    rec_out,    \* outcome of the last call on the recorder
    rec_log,    \* history: arguments of the recorder's successful interact calls, in order
    new_arg,    \* the Vec<Interaction> a direct InteractionPattern::new call is given
    new_out,    \* result of the last direct InteractionPattern::new call
    pattern,    \* the InteractionPattern handed to the player, or NoPattern
    shown,      \* the last rendering or hash taken of the pattern
    ply,        \* PatternPlayer: [position, finalized]
    ply_live,   \* "none", "live", "gone"
    ply_out,    \* outcome of the last call on the player
    played,     \* history: arguments of the player's successful interact calls, in order
    how,        \* history: which call set the player's finalized flag
    allok,      \* history: every call on the player so far has succeeded
    sp,         \* DuplexSponge: [permutation, absorb_pos, squeeze_pos]
    sp_live,    \* "none", "live"
    sp_out,     \* outcome of the last call on the sponge
    sp_prev,    \* history: the call on the sponge before the last one
    fresh,      \* history: TRUE from an absorb until the next non-empty squeeze
    pending,    \* history: whether new / a ratchet came since the last non-empty squeeze
    shared,     \* the PatternPlayers created over the one pattern: [self, live, out] each
    alone,      \* history: each of those players as it runs alone over a pattern of its own
    run         \* the absorb or squeeze call in progress, followed iteration by iteration

pvars == <<alt, rec, rec_live, rec_out, rec_log, new_arg, new_out, pattern, shown, ply, ply_live, ply_out, played, how, allok>>
svars == <<sp, sp_live, sp_out, sp_prev, fresh, pending>>
cvars == <<shared, alone>>
lvars == <<run>>
vars == <<alt, rec, rec_live, rec_out, rec_log, new_arg, new_out, pattern, shown, ply, ply_live, ply_out, played, how, allok,
          sp, sp_live, sp_out, sp_prev, fresh, pending, shared, alone, run>>

(***************************************************************************)
(* Bounds of the model.                                                    *)
(***************************************************************************)
\* Longest interaction sequence recorded and replayed.
MaxLen == 3

\* Longest interaction sequence handed directly to InteractionPattern::new.
MaxVec == 4

\* Longest interaction sequence that is validated and then rendered.
MaxShow == 3

\* Width and rate of the permutation the sponge is built over (N > R >= 1).
N == 4

R == 2

\* Units of the seed that Permutation::new writes into the capacity.
IvLen == 1

\* Longest input of one absorb call and longest output of one squeeze call.
MaxIn == 3

MaxOut == 3

\* Longest pattern that two players share.
MaxShared == 2

(***************************************************************************)
(* Interaction (pattern/interaction.rs)                                    *)
(***************************************************************************)
Hierarchy == {"Atomic", "Begin", "End"}

Kind == {"Protocol", "Public", "Message", "Hint", "Challenge"}

\* Length::None, Scalar, Fixed(usize), Dynamic; size is 0 unless Fixed.
Length == {[tag |-> "None", size |-> 0], [tag |-> "Scalar", size |-> 0],
           [tag |-> "Fixed", size |-> 1], [tag |-> "Dynamic", size |-> 0]}

LengthNone == [tag |-> "None", size |-> 0]

LengthScalar == [tag |-> "Scalar", size |-> 0]

Interaction_new(hierarchy, kind, label, type_name, length) ==
    [hierarchy |-> hierarchy, kind |-> kind, label |-> label,
     type_name |-> type_name, length |-> length]

\* The interactions a rendered pattern is drawn from: for each hierarchy one
\* interaction and its four neighbours differing from it in kind, in label,
\* in type name or in length only.
ShownVariants ==
    {<<"Message", "test", "u8", [tag |-> "None", size |-> 0]>>,
     <<"Protocol", "test", "u8", [tag |-> "None", size |-> 0]>>,
     <<"Message", "test-message", "u8", [tag |-> "None", size |-> 0]>>,
     <<"Message", "test", "u64", [tag |-> "None", size |-> 0]>>,
     <<"Message", "test", "u8", [tag |-> "Scalar", size |-> 0]>>}

ShownInteractions ==
    {[hierarchy |-> h, kind |-> v[1], label |-> v[2], type_name |-> v[3], length |-> v[4]] :
        h \in Hierarchy, v \in ShownVariants}

\* Stands for "no interaction" where a record field needs a value.
NoInteraction == Interaction_new("-", "-", "-", "-", LengthNone)

\* The (label, type name, length) triples the model draws from: a base triple
\* and, chosen once per run, one triple differing from it in a single field.
BaseVariant == <<"a", "u8", LengthNone>>

AltVariants == {<<"b", "u8", LengthNone>>, <<"a", "u64", LengthNone>>,
                <<"a", "u8", LengthScalar>>}

\* The kinds the model draws from: the wildcard kind and one other.
UsedKinds == {"Protocol", "Message"}

\* The interactions the model draws its inputs from.
Interactions ==
    {Interaction_new(h, k, v[1], v[2], v[3]) :
        h \in Hierarchy, k \in UsedKinds, v \in {BaseVariant, alt}}

\* The interactions a directly validated sequence is drawn from: both kinds
\* with the base triple, and the non-wildcard kind with the other triple too.
ValidateInteractions ==
    {i \in Interactions :
        i.kind = "Message" \/ <<i.label, i.type_name, i.length>> = BaseVariant}

\* Mutant of closes: the type names are not compared.
closes_without_type_name(self, other) ==
    /\ self.hierarchy = "End"
    /\ other.hierarchy = "Begin"
    /\ self.kind = other.kind
    /\ self.label = other.label
    /\ self.length = other.length

closes(self, other) ==
    /\ self.hierarchy = "End"
    /\ other.hierarchy = "Begin"
    /\ self.kind = other.kind
    /\ self.label = other.label
    /\ self.type_name = other.type_name
    /\ self.length = other.length

(***************************************************************************)
(* InteractionPattern (pattern/interaction_pattern.rs)                     *)
(***************************************************************************)
\* An InteractionPattern value, and the absence of one (Err, or nothing returned).
SomePattern(interactions) == [some |-> TRUE, interactions |-> interactions]

NoPattern == [some |-> FALSE, interactions |-> <<>>]

\* TranscriptError, and Ok, as one record shape; unused fields hold -1 / NoInteraction.
ValidateOk ==
    [tag |-> "Ok", position |-> -1, begin_position |-> -1, begin |-> NoInteraction,
     end_position |-> -1, end |-> NoInteraction,
     interaction_position |-> -1, interaction |-> NoInteraction]

MissingBegin(position, end) ==
    [ValidateOk EXCEPT !.tag = "MissingBegin", !.position = position, !.end = end]

InvalidKind(begin_position, begin, interaction_position, interaction) ==
    [ValidateOk EXCEPT !.tag = "InvalidKind", !.begin_position = begin_position,
                       !.begin = begin, !.interaction_position = interaction_position,
                       !.interaction = interaction]

MismatchedBeginEnd(begin_position, begin, end_position, end) ==
    [ValidateOk EXCEPT !.tag = "MismatchedBeginEnd", !.begin_position = begin_position,
                       !.begin = begin, !.end_position = end_position, !.end = end]

MissingEnd(position, begin) ==
    [ValidateOk EXCEPT !.tag = "MissingEnd", !.position = position, !.begin = begin]

Pop(stack) == SubSeq(stack, 1, Len(stack) - 1)

\* Mutant of Top: the outermost open Begin is taken instead of the innermost.
Top_outermost(stack) == stack[1]

Top(stack) == stack[Len(stack)]

\* Mutant of validate_loop: a group's kind is required of its atomic children
\* even when that kind is Protocol.
RECURSIVE validate_loop_no_wildcard(_, _, _)
validate_loop_no_wildcard(interactions, position, stack) ==
    IF position >= Len(interactions)
    THEN IF stack # <<>>
         THEN MissingEnd(Top(stack)[1], Top(stack)[2])
         ELSE ValidateOk
    ELSE LET interaction == interactions[position + 1] IN
         CASE interaction.hierarchy = "Begin" ->
                validate_loop_no_wildcard(interactions, position + 1,
                                          Append(stack, <<position, interaction>>))
           [] interaction.hierarchy = "End" ->
                IF stack = <<>>
                THEN MissingBegin(position, interaction)
                ELSE LET begin_position == Top(stack)[1]
                         begin == Top(stack)[2]
                     IN IF ~closes(interaction, begin)
                        THEN MismatchedBeginEnd(begin_position, begin,
                                                Len(interactions), interaction)
                        ELSE validate_loop_no_wildcard(interactions, position + 1, Pop(stack))
           [] OTHER ->
                IF stack = <<>>
                THEN validate_loop_no_wildcard(interactions, position + 1, stack)
                ELSE LET begin_position == Top(stack)[1]
                         begin == Top(stack)[2]
                     IN IF begin.kind # interaction.kind
                        THEN InvalidKind(begin_position, begin, position, interaction)
                        ELSE validate_loop_no_wildcard(interactions, position + 1, stack)

\* The loop of validate from 0-based index `position`, with `stack` the open
\* Begins as <<position, interaction>> pairs, then the check after the loop.
RECURSIVE validate_loop(_, _, _)
validate_loop(interactions, position, stack) ==
    IF position >= Len(interactions)
    THEN IF stack # <<>>
         THEN MissingEnd(Top(stack)[1], Top(stack)[2])
         ELSE ValidateOk
    ELSE LET interaction == interactions[position + 1] IN
         CASE interaction.hierarchy = "Begin" ->
                validate_loop(interactions, position + 1,
                              Append(stack, <<position, interaction>>))
           [] interaction.hierarchy = "End" ->
                IF stack = <<>>
                THEN MissingBegin(position, interaction)
                ELSE LET begin_position == Top(stack)[1]
                         begin == Top(stack)[2]
                     IN IF ~closes(interaction, begin)
                        THEN MismatchedBeginEnd(begin_position, begin,
                                                Len(interactions), interaction)
                        ELSE validate_loop(interactions, position + 1, Pop(stack))
           [] OTHER ->
                IF stack = <<>>
                THEN validate_loop(interactions, position + 1, stack)
                ELSE LET begin_position == Top(stack)[1]
                         begin == Top(stack)[2]
                     IN IF begin.kind # "Protocol" /\ begin.kind # interaction.kind
                        THEN InvalidKind(begin_position, begin, position, interaction)
                        ELSE validate_loop(interactions, position + 1, stack)

\* Mutant of validate: MissingBegin reports the sequence's length as its
\* position, as MismatchedBeginEnd does for its end_position.
validate_missing_begin_at_len(interactions) ==
    LET e == validate_loop(interactions, 0, <<>>) IN
    IF e.tag = "MissingBegin" THEN [e EXCEPT !.position = Len(interactions)] ELSE e

validate(interactions) == validate_loop(interactions, 0, <<>>)

\* InteractionPattern::new: Ok(pattern) or Err(e).
InteractionPattern_new(interactions) ==
    LET e == validate(interactions) IN
    [pattern |-> IF e.tag = "Ok" THEN SomePattern(interactions) ELSE NoPattern, err |-> e]

(***************************************************************************)
(* Display and pattern_hash (pattern/interaction.rs, interaction_pattern.rs)*)
(* Text is a sequence of one-character strings.                            *)
(***************************************************************************)
\* The characters of the labels and type names the model uses.
str_chars(str) ==
    CASE str = "a" -> <<"a">>
      [] str = "b" -> <<"b">>
      [] str = "test" -> <<"t", "e", "s", "t">>
      [] str = "test-message" -> <<"t", "e", "s", "t", "-", "m", "e", "s", "s", "a", "g", "e">>
      [] str = "u8" -> <<"u", "8">>
      [] str = "u64" -> <<"u", "6", "4">>
      [] OTHER -> <<"?">>

\* usize's Display: decimal digits, no padding.
RECURSIVE to_string(_)
to_string(n) ==
    LET digit == <<"0", "1", "2", "3", "4", "5", "6", "7", "8", "9">>[(n % 10) + 1] IN
    IF n < 10 THEN <<digit>> ELSE Append(to_string(n \div 10), digit)

\* {:0>width$}: padded on the left with "0" up to width characters.
RECURSIVE pad_zero(_, _)
pad_zero(text, width) ==
    IF Len(text) >= width THEN text ELSE pad_zero(<<"0">> \o text, width)

\* impl Display for Hierarchy.
Hierarchy_fmt(self) ==
    CASE self = "Atomic" -> <<"A", "t", "o", "m", "i", "c">>
      [] self = "Begin" -> <<"B", "e", "g", "i", "n">>
      [] self = "End" -> <<"E", "n", "d">>

\* impl Display for Kind.
Kind_fmt(self) ==
    CASE self = "Protocol" -> <<"P", "r", "o", "t", "o", "c", "o", "l">>
      [] self = "Public" -> <<"P", "u", "b", "l", "i", "c">>
      [] self = "Message" -> <<"M", "e", "s", "s", "a", "g", "e">>
      [] self = "Hint" -> <<"H", "i", "n", "t">>
      [] self = "Challenge" -> <<"C", "h", "a", "l", "l", "e", "n", "g", "e">>

\* impl Display for Length.
Length_fmt(self) ==
    CASE self.tag = "None" -> <<"N", "o", "n", "e">>
      [] self.tag = "Scalar" -> <<"S", "c", "a", "l", "a", "r">>
      [] self.tag = "Fixed" -> <<"F", "i", "x", "e", "d", "(">> \o to_string(self.size) \o <<")">>
      [] self.tag = "Dynamic" -> <<"D", "y", "n", "a", "m", "i", "c">>

\* Mutant of Interaction_fmt: the type name is written in alternate mode too.
Interaction_fmt_with_type(self, alternate) ==
    IF alternate
    THEN Hierarchy_fmt(self.hierarchy) \o <<" ">> \o Kind_fmt(self.kind)
         \o <<" ">> \o to_string(Len(str_chars(self.label))) \o <<" ">> \o str_chars(self.label)
         \o <<" ">> \o Length_fmt(self.length) \o <<" ">> \o str_chars(self.type_name)
    ELSE Hierarchy_fmt(self.hierarchy) \o <<" ">> \o Kind_fmt(self.kind)
         \o <<" ">> \o str_chars(self.label) \o <<" ">> \o Length_fmt(self.length)
         \o <<" ">> \o str_chars(self.type_name)

\* impl Display for Interaction; alternate is the {:#} flag.
Interaction_fmt(self, alternate) ==
    IF alternate
    THEN Hierarchy_fmt(self.hierarchy) \o <<" ">> \o Kind_fmt(self.kind)
         \o <<" ">> \o to_string(Len(str_chars(self.label))) \o <<" ">> \o str_chars(self.label)
         \o <<" ">> \o Length_fmt(self.length)
    ELSE Hierarchy_fmt(self.hierarchy) \o <<" ">> \o Kind_fmt(self.kind)
         \o <<" ">> \o str_chars(self.label) \o <<" ">> \o Length_fmt(self.length)
         \o <<" ">> \o str_chars(self.type_name)

\* The header line of impl Display for InteractionPattern.
fmt_header(length) ==
    <<"S", "p", "o", "n", "g", "e", "f", "i", "s", "h", " ", "T", "r", "a", "n", "s", "c", "r", "i", "p", "t", " ", "(">> \o to_string(length)
    \o <<" ", "i", "n", "t", "e", "r", "a", "c", "t", "i", "o", "n", "s", ")", "\n">>

\* Mutant of fmt_indent: the alternate rendering is not indented.
fmt_indent_plain_only(indentation, alternate) ==
    IF alternate THEN <<>>
    ELSE [k \in 1..(2 * (IF indentation > 0 THEN indentation ELSE 0)) |-> " "]

\* for _ in 0..indentation { write!(f, "  ") }: in both modes.
fmt_indent(indentation, alternate) ==
    [k \in 1..(2 * (IF indentation > 0 THEN indentation ELSE 0)) |-> " "]

\* The loop of impl Display for InteractionPattern from 0-based index position.
RECURSIVE fmt_loop(_, _, _, _, _)
fmt_loop(interactions, position, indentation, width, alternate) ==
    IF position >= Len(interactions) THEN <<>>
    ELSE LET interaction == interactions[position + 1]
             ind == IF interaction.hierarchy = "End" THEN indentation - 1 ELSE indentation
             next == IF interaction.hierarchy = "Begin" THEN ind + 1 ELSE ind
         IN pad_zero(to_string(position), width) \o <<" ">>
            \o fmt_indent(ind, alternate)
            \o Interaction_fmt(interaction, alternate) \o <<"\n">>
            \o fmt_loop(interactions, position + 1, next, width, alternate)

\* Mutant of InteractionPattern_fmt: the header does not state the count.
InteractionPattern_fmt_no_count(self, alternate) ==
    LET length == Len(self.interactions)
        width == Len(to_string(IF length = 0 THEN 0 ELSE length - 1))
    IN <<"S", "p", "o", "n", "g", "e", "f", "i", "s", "h", " ", "T", "r", "a", "n", "s", "c", "r", "i", "p", "t", "\n">>
       \o fmt_loop(self.interactions, 0, 0, width, alternate)

\* impl Display for InteractionPattern.
InteractionPattern_fmt(self, alternate) ==
    LET length == Len(self.interactions)
        width == Len(to_string(IF length = 0 THEN 0 ELSE length - 1))
    IN fmt_header(length) \o fmt_loop(self.interactions, 0, 0, width, alternate)

\* Sha3_256 comes from the sha3 crate: a symbolic digest of its input.
Sha3_256(bytes) == <<"Sha3_256", bytes>>

\* InteractionPattern::pattern_hash.
pattern_hash(self) == Sha3_256(InteractionPattern_fmt(self, TRUE))

Shown(op, alternate, text, hash) ==
    [op |-> op, alternate |-> alternate, text |-> text, hash |-> hash]

NoShown == Shown("none", FALSE, <<>>, <<>>)

(***************************************************************************)
(* PatternState (pattern/pattern_state.rs)                                 *)
(***************************************************************************)
PatternState_new == [interactions |-> <<>>, finalized |-> FALSE]

\* Mutant of last_open_begin_scan: the scan does not count the Ends it passes,
\* so it returns the last Begin whether it is closed or not.
RECURSIVE last_open_begin_scan_uncounted(_, _, _)
last_open_begin_scan_uncounted(interactions, idx, stack) ==
    IF idx = 0 THEN NoInteraction
    ELSE IF interactions[idx].hierarchy = "Begin" THEN interactions[idx]
    ELSE last_open_begin_scan_uncounted(interactions, idx - 1, stack)

\* The reverse scan of last_open_begin from 1-based index idx downwards;
\* NoInteraction stands for None.
RECURSIVE last_open_begin_scan(_, _, _)
last_open_begin_scan(interactions, idx, stack) ==
    IF idx = 0 THEN NoInteraction
    ELSE LET interaction == interactions[idx] IN
         CASE interaction.hierarchy = "End" ->
                last_open_begin_scan(interactions, idx - 1, stack + 1)
           [] interaction.hierarchy = "Begin" ->
                IF stack = 0 THEN interaction
                ELSE last_open_begin_scan(interactions, idx - 1, stack - 1)
           [] OTHER -> last_open_begin_scan(interactions, idx - 1, stack)

last_open_begin(self) == last_open_begin_scan(self.interactions, Len(self.interactions), 0)

RecOut(op, result, arg, begin, err) ==
    [op |-> op, result |-> result, arg |-> arg, begin |-> begin, err |-> err]

NoRecOut == RecOut("none", "none", NoInteraction, NoInteraction, ValidateOk)

\* Mutant of PatternState_push: the interaction is inserted at the front.
PatternState_push_front(self, interaction) ==
    [self EXCEPT !.interactions = <<interaction>> \o self.interactions]

\* The push at the end of PatternState::interact.
PatternState_push(self, interaction) ==
    [self EXCEPT !.interactions = Append(self.interactions, interaction)]

\* Mutant of PatternState_interact: the kind rule is applied to an Atomic only.
PatternState_interact_atomic_only(self, interaction) ==
    IF self.finalized
    THEN [self |-> self,
          out |-> RecOut("interact", "AlreadyFinalized", interaction, NoInteraction, ValidateOk)]
    ELSE LET begin == last_open_begin(self) IN
         IF begin # NoInteraction
         THEN IF /\ interaction.hierarchy = "Atomic"
                 /\ ~(begin.kind = "Protocol" \/ begin.kind = interaction.kind)
              THEN [self |-> self,
                    out |-> RecOut("interact", "InvalidKind", interaction, begin, ValidateOk)]
              ELSE IF ~(interaction.hierarchy # "End" \/ closes(interaction, begin))
              THEN [self |-> self,
                    out |-> RecOut("interact", "MismatchedBeginEnd", interaction, begin, ValidateOk)]
              ELSE [self |-> PatternState_push(self, interaction),
                    out |-> RecOut("interact", "ok", interaction, begin, ValidateOk)]
         ELSE IF ~(interaction.hierarchy # "End")
              THEN [self |-> self,
                    out |-> RecOut("interact", "MissingBegin", interaction, NoInteraction, ValidateOk)]
              ELSE [self |-> PatternState_push(self, interaction),
                    out |-> RecOut("interact", "ok", interaction, NoInteraction, ValidateOk)]

\* PatternState::interact: the recorder after the call and the call's outcome.
PatternState_interact(self, interaction) ==
    IF self.finalized
    THEN [self |-> self,
          out |-> RecOut("interact", "AlreadyFinalized", interaction, NoInteraction, ValidateOk)]
    ELSE LET begin == last_open_begin(self) IN
         IF begin # NoInteraction
         THEN IF ~(begin.kind = "Protocol" \/ begin.kind = interaction.kind)
              THEN [self |-> self,
                    out |-> RecOut("interact", "InvalidKind", interaction, begin, ValidateOk)]
              ELSE IF ~(interaction.hierarchy # "End" \/ closes(interaction, begin))
              THEN [self |-> self,
                    out |-> RecOut("interact", "MismatchedBeginEnd", interaction, begin, ValidateOk)]
              ELSE [self |-> PatternState_push(self, interaction),
                    out |-> RecOut("interact", "ok", interaction, begin, ValidateOk)]
         ELSE IF ~(interaction.hierarchy # "End")
              THEN [self |-> self,
                    out |-> RecOut("interact", "MissingBegin", interaction, NoInteraction, ValidateOk)]
              ELSE [self |-> PatternState_push(self, interaction),
                    out |-> RecOut("interact", "ok", interaction, NoInteraction, ValidateOk)]

\* Mutant of PatternState_finalize: the recorded sequence is returned as a
\* pattern whatever the validation says.
PatternState_finalize_lenient(self) ==
    IF self.finalized
    THEN [pattern |-> NoPattern,
          out |-> RecOut("finalize", "AlreadyFinalized", NoInteraction, NoInteraction, ValidateOk)]
    ELSE [pattern |-> SomePattern(self.interactions),
          out |-> RecOut("finalize", "ok", NoInteraction, NoInteraction, ValidateOk)]

\* PatternState::finalize(self): consumes the recorder; the pattern returned and the outcome.
PatternState_finalize(self) ==
    IF self.finalized
    THEN [pattern |-> NoPattern,
          out |-> RecOut("finalize", "AlreadyFinalized", NoInteraction, NoInteraction, ValidateOk)]
    ELSE LET r == InteractionPattern_new(self.interactions) IN
         IF r.err.tag = "Ok"
         THEN [pattern |-> r.pattern,
               out |-> RecOut("finalize", "ok", NoInteraction, NoInteraction, ValidateOk)]
         ELSE [pattern |-> NoPattern,
               out |-> RecOut("finalize", "ValidationError", NoInteraction, NoInteraction, r.err)]

\* PatternState::abort.
PatternState_abort(self) ==
    IF self.finalized
    THEN [self |-> self,
          out |-> RecOut("abort", "AlreadyFinalized", NoInteraction, NoInteraction, ValidateOk)]
    ELSE [self |-> [self EXCEPT !.finalized = TRUE],
          out |-> RecOut("abort", "ok", NoInteraction, NoInteraction, ValidateOk)]

\* A PatternState going out of scope: the type has no Drop implementation,
\* so its fields are released and nothing is checked.
PatternState_drop(self) ==
    RecOut("drop", "ok", NoInteraction, NoInteraction, ValidateOk)

(***************************************************************************)
(* PatternPlayer (pattern/pattern_player.rs)                               *)
(***************************************************************************)
PatternPlayer_new == [position |-> 0, finalized |-> FALSE]

PlyOut(op, result, received, expected, drop) ==
    [op |-> op, result |-> result, received |-> received, expected |-> expected,
     drop |-> drop]

NoPlyOut == PlyOut("none", "none", NoInteraction, NoInteraction, "none")

\* Mutant of PatternPlayer_drop: nothing is asserted.
PatternPlayer_drop_silent(self) == "ok"

\* impl Drop for PatternPlayer: the outcome of the assertion.
PatternPlayer_drop(self) ==
    IF self.finalized THEN "ok" ELSE "DroppedUnfinalized"

\* Mutant of PatternPlayer_interact: the comparison leaves out the type name,
\* as the canonical rendering does.
PatternPlayer_interact_canonical(self, p, interaction) ==
    IF self.finalized
    THEN [self |-> self,
          out |-> PlyOut("interact", "AlreadyFinalized", NoInteraction, NoInteraction, "none")]
    ELSE IF ~(self.position < Len(p))
    THEN [self |-> [self EXCEPT !.finalized = TRUE],
          out |-> PlyOut("interact", "NoMoreExpected", interaction, NoInteraction, "none")]
    ELSE LET expected == p[self.position + 1] IN
         IF [expected EXCEPT !.type_name = "-"] # [interaction EXCEPT !.type_name = "-"]
         THEN [self |-> [self EXCEPT !.finalized = TRUE],
               out |-> PlyOut("interact", "Mismatch", interaction, expected, "none")]
         ELSE [self |-> [self EXCEPT !.position = self.position + 1],
               out |-> PlyOut("interact", "ok", interaction, expected, "none")]

\* Mutant of PatternPlayer_interact: past the end of the pattern the call
\* panics without marking the player finalized.
PatternPlayer_interact_unmarked(self, p, interaction) ==
    IF self.finalized
    THEN [self |-> self,
          out |-> PlyOut("interact", "AlreadyFinalized", NoInteraction, NoInteraction, "none")]
    ELSE IF ~(self.position < Len(p))
    THEN [self |-> self,
          out |-> PlyOut("interact", "NoMoreExpected", interaction, NoInteraction, "none")]
    ELSE LET expected == p[self.position + 1] IN
         IF expected # interaction
         THEN [self |-> [self EXCEPT !.finalized = TRUE],
               out |-> PlyOut("interact", "Mismatch", interaction, expected, "none")]
         ELSE [self |-> [self EXCEPT !.position = self.position + 1],
               out |-> PlyOut("interact", "ok", interaction, expected, "none")]

\* Mutant of PatternPlayer_interact: a differing interaction is reported and
\* the cursor moves past the expected one all the same.
PatternPlayer_interact_skipping(self, p, interaction) ==
    IF self.finalized
    THEN [self |-> self,
          out |-> PlyOut("interact", "AlreadyFinalized", NoInteraction, NoInteraction, "none")]
    ELSE IF ~(self.position < Len(p))
    THEN [self |-> [self EXCEPT !.finalized = TRUE],
          out |-> PlyOut("interact", "NoMoreExpected", interaction, NoInteraction, "none")]
    ELSE LET expected == p[self.position + 1] IN
         IF expected # interaction
         THEN [self |-> [self EXCEPT !.finalized = TRUE, !.position = self.position + 1],
               out |-> PlyOut("interact", "Mismatch", interaction, expected, "none")]
         ELSE [self |-> [self EXCEPT !.position = self.position + 1],
               out |-> PlyOut("interact", "ok", interaction, expected, "none")]

\* PatternPlayer::interact: the player after the call and the call's outcome.
PatternPlayer_interact(self, p, interaction) ==
    IF self.finalized
    THEN [self |-> self,
          out |-> PlyOut("interact", "AlreadyFinalized", NoInteraction, NoInteraction, "none")]
    ELSE IF ~(self.position < Len(p))
    THEN [self |-> [self EXCEPT !.finalized = TRUE],
          out |-> PlyOut("interact", "NoMoreExpected", interaction, NoInteraction, "none")]
    ELSE LET expected == p[self.position + 1] IN
         IF expected # interaction
         THEN [self |-> [self EXCEPT !.finalized = TRUE],
               out |-> PlyOut("interact", "Mismatch", interaction, expected, "none")]
         ELSE [self |-> [self EXCEPT !.position = self.position + 1],
               out |-> PlyOut("interact", "ok", interaction, expected, "none")]

\* Mutant of PatternPlayer_finalize: the cursor is not compared with the
\* pattern's length.
PatternPlayer_finalize_unchecked(self, p) ==
    IF self.finalized
    THEN [self |-> self,
          out |-> PlyOut("finalize", "AlreadyFinalized", NoInteraction, NoInteraction,
                         PatternPlayer_drop(self))]
    ELSE LET done == [self EXCEPT !.finalized = TRUE] IN
         [self |-> done,
          out |-> PlyOut("finalize", "ok", NoInteraction, NoInteraction,
                         PatternPlayer_drop(done))]

\* PatternPlayer::finalize(mut self): consumes the player, so Drop runs on the
\* way out (on return, or while the panic unwinds).
PatternPlayer_finalize(self, p) ==
    IF ~(self.position <= Len(p))
    THEN [self |-> self,
          out |-> PlyOut("finalize", "PositionPastEnd", NoInteraction, NoInteraction,
                         PatternPlayer_drop(self))]
    ELSE IF self.finalized
    THEN [self |-> self,
          out |-> PlyOut("finalize", "AlreadyFinalized", NoInteraction, NoInteraction,
                         PatternPlayer_drop(self))]
    ELSE IF ~(self.position >= Len(p))
    THEN [self |-> self,
          out |-> PlyOut("finalize", "NotFinished", NoInteraction, p[self.position + 1],
                         PatternPlayer_drop(self))]
    ELSE LET done == [self EXCEPT !.finalized = TRUE] IN
         [self |-> done,
          out |-> PlyOut("finalize", "ok", NoInteraction, NoInteraction,
                         PatternPlayer_drop(done))]

\* Mutant of PatternPlayer_abort: the cursor is rewound as the player is marked.
PatternPlayer_abort_rewinds(self) ==
    IF self.finalized
    THEN [self |-> self,
          out |-> PlyOut("abort", "AlreadyFinalized", NoInteraction, NoInteraction, "none")]
    ELSE [self |-> [self EXCEPT !.finalized = TRUE, !.position = 0],
          out |-> PlyOut("abort", "ok", NoInteraction, NoInteraction, "none")]

\* PatternPlayer::abort.
PatternPlayer_abort(self) ==
    IF self.finalized
    THEN [self |-> self,
          out |-> PlyOut("abort", "AlreadyFinalized", NoInteraction, NoInteraction, "none")]
    ELSE [self |-> [self EXCEPT !.finalized = TRUE],
          out |-> PlyOut("abort", "ok", NoInteraction, NoInteraction, "none")]

\* The players that hold the same Arc<InteractionPattern>.
Players == {1, 2}

\* One of those players: its fields, whether it exists, and its last outcome.
Player(self, live, out) == [self |-> self, live |-> live, out |-> out]

NoPlayer == Player(PatternPlayer_new, "none", NoPlyOut)

\* Mutant of Players_update: the cursor is one field that all the players of
\* a pattern share.
Players_update_shared_cursor(players, k, self, live, out) ==
    [j \in DOMAIN players |->
        IF j = k THEN Player(self, live, out)
        ELSE [players[j] EXCEPT !.self.position = self.position]]

\* A call on player k through &mut self: position and finalized are fields of
\* that player, so only its own entry changes.
Players_update(players, k, self, live, out) ==
    [players EXCEPT ![k] = Player(self, live, out)]

(***************************************************************************)
(* Permutation and DuplexSponge (duplex_sponge/mod.rs, keccak.rs)          *)
(***************************************************************************)
\* The values of one unit. The sponge never inspects a unit, so two values
\* are enough to tell units apart.
Unit == {0, 1}

\* Default: the all-zero state of N units, indexed 0..N-1 as in the source.
Permutation_default == [i \in 0..(N - 1) |-> 0]

\* Permutation::new(iv) as KeccakF1600::new does it: the seed goes to the
\* units [R, R + IvLen), the rest stays zero.
Permutation_new(iv) ==
    [i \in 0..(N - 1) |-> IF i >= R /\ i < R + IvLen THEN iv[i - R + 1] ELSE 0]

\* Permutation::permute. keccak::f1600 is an external crate; it is modelled by
\* a fixed bijection on the whole state that mixes rate and capacity and does
\* not fix the zero state.
permute(state) ==
    LET rot == [i \in 0..(N - 1) |-> state[(i + 1) % N]] IN
    [i \in 0..(N - 1) |->
        IF i = 0 THEN (rot[0] + rot[N - 1] * rot[1] + 1) % 2 ELSE rot[i]]

\* What a call does, in order: "call" (a squeeze_unchecked invocation that goes
\* past the empty check), "permute", "write"/"read"/"zero" of len units at `at`.
Event(e, at, len) == [e |-> e, at |-> at, len |-> len]

SpOut(op, result, n, output, events) ==
    [op |-> op, result |-> result, n |-> n, output |-> output, events |-> events]

NoSpOut == SpOut("none", "none", 0, <<>>, <<>>)

\* Mutant of Min: the chunk is not cut at the end of the rate.
Min_uncut(a, b) == a

Min(a, b) == IF a < b THEN a ELSE b

\* The permutation types C a DuplexSponge<C> is instantiated over, as their
\* constants C::N and C::R: the one of this model, and two that leave no capacity.
PermutationTypes == {[N |-> N, R |-> R], [N |-> R, R |-> R], [N |-> R - 1, R |-> R]}

\* Mutant of DuplexSponge_new: squeeze_pos starts at 0, as absorb_pos does.
DuplexSponge_new_squeeze_pos_zero(C, iv) ==
    IF ~(C.N > C.R)
    THEN [self |-> [permutation |-> Permutation_default, absorb_pos |-> 0, squeeze_pos |-> 0],
          out |-> SpOut("new", "CapacityNotPositive", 0, <<>>, <<>>)]
    ELSE [self |-> [permutation |-> Permutation_new(iv), absorb_pos |-> 0, squeeze_pos |-> 0],
          out |-> SpOut("new", "ok", 0, <<>>, <<>>)]

\* DuplexSponge::<C>::new. The assertion fails before anything is built; the
\* sponge of a failed construction does not exist, its fields here are filler.
DuplexSponge_new(C, iv) ==
    IF ~(C.N > C.R)
    THEN [self |-> [permutation |-> Permutation_default, absorb_pos |-> 0, squeeze_pos |-> 0],
          out |-> SpOut("new", "CapacityNotPositive", 0, <<>>, <<>>)]
    ELSE [self |-> [permutation |-> Permutation_new(iv), absorb_pos |-> 0, squeeze_pos |-> C.R],
          out |-> SpOut("new", "ok", 0, <<>>, <<>>)]

\* Mutant of absorb_reset: absorb_pos is reset too, as squeeze_unchecked does.
absorb_reset_both(self) == [self EXCEPT !.squeeze_pos = R, !.absorb_pos = 0]

\* Mutant of absorb_reset: squeeze_pos is left alone.
absorb_reset_none(self) == self

\* Line 81 of absorb_unchecked: any absorb invalidates pending squeeze output.
absorb_reset(self) == [self EXCEPT !.squeeze_pos = R]

\* The while loop of absorb_unchecked.
RECURSIVE absorb_loop(_, _, _)
absorb_loop(self, input, events) ==
    IF input = <<>>
    THEN [self |-> self, result |-> "ok", events |-> events]
    ELSE IF self.absorb_pos = R
    THEN absorb_loop([self EXCEPT !.permutation = permute(self.permutation),
                                  !.absorb_pos = 0],
                     input, Append(events, Event("permute", 0, 0)))
    ELSE IF ~(self.absorb_pos < R)
    THEN [self |-> self, result |-> "AssertFailed", events |-> events]
    ELSE LET chunk_len == Min(Len(input), R - self.absorb_pos)
             chunk == SubSeq(input, 1, chunk_len)
             rest == SubSeq(input, chunk_len + 1, Len(input))
         IN absorb_loop(
                [self EXCEPT
                    !.permutation =
                        [i \in 0..(N - 1) |->
                            IF i >= self.absorb_pos /\ i < self.absorb_pos + chunk_len
                            THEN chunk[i - self.absorb_pos + 1]
                            ELSE self.permutation[i]],
                    !.absorb_pos = self.absorb_pos + chunk_len],
                rest, Append(events, Event("write", self.absorb_pos, chunk_len)))

\* DuplexSponge::absorb_unchecked: the sponge after the call and the call's outcome.
absorb_unchecked(self, input) ==
    LET r == absorb_loop(absorb_reset(self), input, <<>>) IN
    [self |-> r.self, out |-> SpOut("absorb", r.result, Len(input), <<>>, r.events)]

\* Mutant of squeeze_prepare: absorb_pos is left where it was.
squeeze_prepare_keep_absorb_pos(self) ==
    IF self.squeeze_pos = R
    THEN [self EXCEPT !.squeeze_pos = 0, !.permutation = permute(self.permutation)]
    ELSE self

\* Lines 105-110 of squeeze_unchecked: reset absorb_pos, permute when the rate is used up.
squeeze_prepare(self) ==
    LET s1 == [self EXCEPT !.absorb_pos = 0] IN
    IF s1.squeeze_pos = R
    THEN [s1 EXCEPT !.squeeze_pos = 0, !.permutation = permute(s1.permutation)]
    ELSE s1

\* squeeze_unchecked on an output of n units with `output` already filled by
\* the enclosing calls.
RECURSIVE squeeze_rec(_, _, _, _)
squeeze_rec(self, n, output, events) ==
    IF n = 0
    THEN [self |-> self, result |-> "ok", output |-> output, events |-> events]
    ELSE LET s2 == squeeze_prepare(self)
             ev == IF self.squeeze_pos = R
                   THEN events \o <<Event("call", 0, 0), Event("permute", 0, 0)>>
                   ELSE Append(events, Event("call", 0, 0))
         IN IF ~(s2.squeeze_pos < R)
            THEN [self |-> s2, result |-> "AssertFailed", output |-> output, events |-> ev]
            ELSE LET chunk_len == Min(n, R - s2.squeeze_pos)
                     chunk == [k \in 1..chunk_len |-> s2.permutation[s2.squeeze_pos + k - 1]]
                 IN squeeze_rec([s2 EXCEPT !.squeeze_pos = s2.squeeze_pos + chunk_len],
                                n - chunk_len, output \o chunk,
                                Append(ev, Event("read", s2.squeeze_pos, chunk_len)))

\* Mutant of squeeze_unchecked: the empty check comes after the reset of
\* absorb_pos and the permute.
squeeze_unchecked_late_return(self, n) ==
    IF n = 0
    THEN [self |-> squeeze_prepare(self),
          out |-> SpOut("squeeze", "ok", 0, <<>>,
                        IF self.squeeze_pos = R THEN <<Event("permute", 0, 0)>> ELSE <<>>)]
    ELSE LET r == squeeze_rec(self, n, <<>>, <<>>) IN
         [self |-> r.self, out |-> SpOut("squeeze", r.result, n, r.output, r.events)]

\* Mutant of squeeze_unchecked: a call on a non-empty slice starts on a fresh
\* block and discards what was left in the rate.
squeeze_unchecked_fresh_block(self, n) ==
    LET r == squeeze_rec(IF n = 0 THEN self ELSE [self EXCEPT !.squeeze_pos = R],
                         n, <<>>, <<>>) IN
    [self |-> r.self, out |-> SpOut("squeeze", r.result, n, r.output, r.events)]

\* DuplexSponge::squeeze_unchecked on an output slice of n units.
squeeze_unchecked(self, n) ==
    LET r == squeeze_rec(self, n, <<>>, <<>>) IN
    [self |-> r.self, out |-> SpOut("squeeze", r.result, n, r.output, r.events)]

\* Mutant of ratchet_unchecked: squeeze_pos is left where it was.
ratchet_unchecked_keep_squeeze_pos(self) ==
    LET permuted == permute(self.permutation) IN
    [self |-> [self EXCEPT
                  !.permutation = [i \in 0..(N - 1) |-> IF i < R THEN 0 ELSE permuted[i]]],
     out |-> SpOut("ratchet", "ok", 0, <<>>,
                   <<Event("permute", 0, 0), Event("zero", 0, R)>>)]

\* Mutant of ratchet_unchecked: absorb_pos is set back to the start of the rate.
ratchet_unchecked_reset_absorb_pos(self) ==
    LET permuted == permute(self.permutation) IN
    [self |-> [self EXCEPT
                  !.permutation = [i \in 0..(N - 1) |-> IF i < R THEN 0 ELSE permuted[i]],
                  !.absorb_pos = 0,
                  !.squeeze_pos = R],
     out |-> SpOut("ratchet", "ok", 0, <<>>,
                   <<Event("permute", 0, 0), Event("zero", 0, R)>>)]

\* DuplexSponge::ratchet_unchecked.
ratchet_unchecked(self) ==
    LET permuted == permute(self.permutation) IN
    [self |-> [self EXCEPT
                  !.permutation = [i \in 0..(N - 1) |-> IF i < R THEN 0 ELSE permuted[i]],
                  !.squeeze_pos = R],
     out |-> SpOut("ratchet", "ok", 0, <<>>,
                   <<Event("permute", 0, 0), Event("zero", 0, R)>>)]

\* A call of absorb_unchecked or squeeze_unchecked in progress: the sponge as
\* the call has left it so far, the input still to absorb, the output units
\* still to fill, the squeeze calls entered, what the last step did, and the
\* arguments the call was given.
Run(op, self, input, n, calls, last, arg, want) ==
    [op |-> op, self |-> self, input |-> input, n |-> n, calls |-> calls,
     last |-> last, arg |-> arg, want |-> want]

NoRun ==
    Run("none", [permutation |-> Permutation_default, absorb_pos |-> 0, squeeze_pos |-> 0],
        <<>>, 0, 0, "none", <<>>, 0)

\* Mutant of absorb_iter: after the permute absorb_pos is left at R.
absorb_iter_keep_absorb_pos(self, input) ==
    IF self.absorb_pos = R
    THEN [self |-> [self EXCEPT !.permutation = permute(self.permutation)],
          input |-> input, did |-> "permute"]
    ELSE IF ~(self.absorb_pos < R)
    THEN [self |-> self, input |-> input, did |-> "AssertFailed"]
    ELSE LET chunk_len == Min(Len(input), R - self.absorb_pos)
             chunk == SubSeq(input, 1, chunk_len)
         IN [self |-> [self EXCEPT
                          !.permutation =
                              [i \in 0..(N - 1) |->
                                  IF i >= self.absorb_pos /\ i < self.absorb_pos + chunk_len
                                  THEN chunk[i - self.absorb_pos + 1]
                                  ELSE self.permutation[i]],
                          !.absorb_pos = self.absorb_pos + chunk_len],
             input |-> SubSeq(input, chunk_len + 1, Len(input)),
             did |-> "write"]

\* One iteration of the while loop of absorb_unchecked on a non-empty input.
absorb_iter(self, input) ==
    IF self.absorb_pos = R
    THEN [self |-> [self EXCEPT !.permutation = permute(self.permutation),
                                !.absorb_pos = 0],
          input |-> input, did |-> "permute"]
    ELSE IF ~(self.absorb_pos < R)
    THEN [self |-> self, input |-> input, did |-> "AssertFailed"]
    ELSE LET chunk_len == Min(Len(input), R - self.absorb_pos)
             chunk == SubSeq(input, 1, chunk_len)
         IN [self |-> [self EXCEPT
                          !.permutation =
                              [i \in 0..(N - 1) |->
                                  IF i >= self.absorb_pos /\ i < self.absorb_pos + chunk_len
                                  THEN chunk[i - self.absorb_pos + 1]
                                  ELSE self.permutation[i]],
                          !.absorb_pos = self.absorb_pos + chunk_len],
             input |-> SubSeq(input, chunk_len + 1, Len(input)),
             did |-> "write"]

\* One call of squeeze_unchecked up to its recursive call: n is the length of
\* the output slice it is given, the n returned that of the slice it passes on.
squeeze_call(self, n) ==
    IF n = 0
    THEN [self |-> self, n |-> 0, did |-> "return"]
    ELSE LET s2 == squeeze_prepare(self) IN
         IF ~(s2.squeeze_pos < R)
         THEN [self |-> s2, n |-> n, did |-> "AssertFailed"]
         ELSE LET chunk_len == Min(n, R - s2.squeeze_pos) IN
              [self |-> [s2 EXCEPT !.squeeze_pos = s2.squeeze_pos + chunk_len],
               n |-> n - chunk_len, did |-> "read"]

(***************************************************************************)
(* The state machine                                                       *)
(***************************************************************************)
\* All interaction sequences of length at most n.
SeqsUpTo(n) == UNION {[1..k -> Interactions] : k \in 0..n}

\* All unit sequences of length at most n.
UnitSeqsUpTo(n) == UNION {[1..k -> Unit] : k \in 0..n}

InitCommon ==
    /\ rec = PatternState_new
    /\ rec_out = NoRecOut
    /\ rec_log = <<>>
    /\ new_out = ValidateOk
    /\ pattern = NoPattern
    /\ shown = NoShown
    /\ ply = PatternPlayer_new
    /\ ply_live = "none"
    /\ ply_out = NoPlyOut
    /\ played = <<>>
    /\ how = "none"
    /\ allok = TRUE
    /\ sp = [permutation |-> Permutation_default, absorb_pos |-> 0, squeeze_pos |-> 0]
    /\ sp_live = "none"
    /\ sp_out = NoSpOut
    /\ sp_prev = "none"
    /\ fresh = FALSE
    /\ pending = [new |-> FALSE, ratchet |-> FALSE]
    /\ shared = [k \in Players |-> NoPlayer]
    /\ alone = [k \in Players |-> NoPlayer]
    /\ run = NoRun

\* A recorder has been created with PatternState::new.
InitPattern == InitCommon /\ rec_live = "live" /\ alt \in AltVariants /\ new_arg = <<>>

\* No recorder: the pattern comes from a direct call of InteractionPattern::new
\* on a sequence the caller has built.
InitValidate ==
    /\ InitCommon
    /\ rec_live = "none"
    /\ alt \in AltVariants
    /\ new_arg \in UNION {[1..k -> ValidateInteractions] : k \in 0..MaxVec}

InitSponge ==
    InitCommon /\ rec_live = "none" /\ alt = <<"b", "u8", LengthNone>> /\ new_arg = <<>>

\* ---- the recorder ----
RecInteract(interaction) ==
    /\ rec_live = "live"
    /\ Len(rec.interactions) < MaxLen
    /\ LET r == PatternState_interact(rec, interaction) IN
         /\ rec' = r.self
         /\ rec_out' = r.out
         /\ rec_log' = IF r.out.result = "ok" THEN Append(rec_log, interaction) ELSE rec_log
    /\ UNCHANGED <<alt, new_arg, shown, rec_live, new_out, pattern, ply, ply_live, ply_out, played, how, allok, svars, cvars, lvars>>

RecAbort ==
    /\ rec_live = "live"
    /\ LET r == PatternState_abort(rec) IN
         /\ rec' = r.self
         /\ rec_out' = r.out
    /\ UNCHANGED <<alt, new_arg, shown, rec_live, rec_log, new_out, pattern, ply, ply_live, ply_out, played, how, allok, svars, cvars, lvars>>

RecFinalize ==
    /\ rec_live = "live"
    /\ LET r == PatternState_finalize(rec) IN
         /\ pattern' = r.pattern
         /\ rec_out' = r.out
    /\ rec_live' = "gone"
    /\ UNCHANGED <<alt, new_arg, shown, rec, rec_log, new_out, ply, ply_live, ply_out, played, how, allok, svars, cvars, lvars>>

RecDrop ==
    /\ rec_live = "live"
    /\ rec_out' = PatternState_drop(rec)
    /\ rec_live' = "gone"
    /\ UNCHANGED <<alt, new_arg, shown, rec, rec_log, new_out, pattern, ply, ply_live, ply_out, played, how, allok, svars, cvars, lvars>>

\* ---- a direct call of InteractionPattern::new ----
PatternNew(interactions) ==
    /\ LET r == InteractionPattern_new(interactions) IN
         /\ pattern' = r.pattern
         /\ new_out' = r.err
    /\ UNCHANGED <<alt, new_arg, shown, rec, rec_live, rec_out, rec_log, ply, ply_live, ply_out, played, how, allok, svars, cvars, lvars>>

\* ---- the player ----
PlayerNew ==
    /\ ply_live = "none"
    /\ pattern.some
    /\ ply' = PatternPlayer_new
    /\ ply_live' = "live"
    /\ ply_out' = PlyOut("new", "ok", NoInteraction, NoInteraction, "none")
    /\ UNCHANGED <<alt, new_arg, shown, rec, rec_live, rec_out, rec_log, new_out, pattern, played, how, allok, svars, cvars, lvars>>

PlayerInteract(interaction) ==
    /\ ply_live = "live"
    /\ LET r == PatternPlayer_interact(ply, pattern.interactions, interaction) IN
         /\ ply' = r.self
         /\ ply_out' = r.out
         /\ played' = IF r.out.result = "ok" THEN Append(played, interaction) ELSE played
         /\ how' = IF r.self.finalized /\ ~ply.finalized THEN "interact" ELSE how
         /\ allok' = (allok /\ r.out.result = "ok")
    /\ UNCHANGED <<alt, new_arg, shown, rec, rec_live, rec_out, rec_log, new_out, pattern, ply_live, svars, cvars, lvars>>

PlayerAbort ==
    /\ ply_live = "live"
    /\ LET r == PatternPlayer_abort(ply) IN
         /\ ply' = r.self
         /\ ply_out' = r.out
         /\ how' = IF r.self.finalized /\ ~ply.finalized THEN "abort" ELSE how
         /\ allok' = (allok /\ r.out.result = "ok")
    /\ UNCHANGED <<alt, new_arg, shown, rec, rec_live, rec_out, rec_log, new_out, pattern, ply_live, played, svars, cvars, lvars>>

PlayerFinalize ==
    /\ ply_live = "live"
    /\ LET r == PatternPlayer_finalize(ply, pattern.interactions) IN
         /\ ply' = r.self
         /\ ply_out' = r.out
         /\ how' = IF r.self.finalized /\ ~ply.finalized THEN "finalize" ELSE how
         /\ allok' = (allok /\ r.out.result = "ok" /\ r.out.drop = "ok")
    /\ ply_live' = "gone"
    /\ UNCHANGED <<alt, new_arg, shown, rec, rec_live, rec_out, rec_log, new_out, pattern, played, svars, cvars, lvars>>

\* The owner lets the player go out of scope.
PlayerDrop ==
    /\ ply_live = "live"
    /\ ply_out' = PlyOut("drop", PatternPlayer_drop(ply), NoInteraction, NoInteraction,
                         PatternPlayer_drop(ply))
    /\ allok' = (allok /\ PatternPlayer_drop(ply) = "ok")
    /\ ply_live' = "gone"
    /\ UNCHANGED <<alt, new_arg, shown, rec, rec_live, rec_out, rec_log, new_out, pattern, ply, played, how, svars, cvars, lvars>>

NextPattern ==
    \/ \E interaction \in Interactions : RecInteract(interaction)
    \/ RecAbort
    \/ RecFinalize
    \/ RecDrop
    \/ PlayerNew
    \/ \E interaction \in Interactions : PlayerInteract(interaction)
    \/ PlayerAbort
    \/ PlayerFinalize
    \/ PlayerDrop

SpecPattern == InitPattern /\ [][NextPattern]_vars

\* new takes the sequence by value, so one sequence is validated once.
NextValidate ==
    /\ rec_live = "none"
    /\ new_out.tag = "Ok"
    /\ ~pattern.some
    /\ PatternNew(new_arg)

SpecValidate == InitValidate /\ [][NextValidate]_vars

\* The two ways to a pattern: a direct call of InteractionPattern::new on a
\* sequence the caller has built, or a recorder that is finalized.
InitFallible == InitValidate \/ InitPattern

NextFallible ==
    \/ NextValidate
    \/ \E interaction \in Interactions : RecInteract(interaction)
    \/ RecAbort
    \/ RecFinalize
    \/ RecDrop

SpecFallible == InitFallible /\ [][NextFallible]_vars

\* ---- rendering and hashing a pattern ----
InitRender ==
    /\ InitCommon
    /\ rec_live = "none"
    /\ alt = <<"b", "u8", LengthNone>>
    /\ new_arg \in UNION {[1..k -> ShownInteractions] : k \in 0..MaxShow}

\* format!("{pattern}") and format!("{pattern:#}").
Display(alternate) ==
    /\ pattern.some
    /\ ply_live = "none"
    /\ shown' = Shown("fmt", alternate, InteractionPattern_fmt(pattern, alternate), <<>>)
    /\ UNCHANGED <<alt, rec, rec_live, rec_out, rec_log, new_arg, new_out, pattern,
                   ply, ply_live, ply_out, played, how, allok, svars, cvars, lvars>>

\* pattern.pattern_hash(); the text that was hashed is kept with the digest.
PatternHash ==
    /\ pattern.some
    /\ ply_live = "none"
    /\ shown' = Shown("pattern_hash", TRUE, InteractionPattern_fmt(pattern, TRUE),
                      pattern_hash(pattern))
    /\ UNCHANGED <<alt, rec, rec_live, rec_out, rec_log, new_arg, new_out, pattern,
                   ply, ply_live, ply_out, played, how, allok, svars, cvars, lvars>>

\* A pattern is validated, rendered and hashed, and then replayed: rendering
\* only reads the pattern, so it is not interleaved with the player's calls.
NextRender ==
    \/ NextValidate
    \/ \E alternate \in BOOLEAN : Display(alternate)
    \/ PatternHash
    \/ (shown.op = "pattern_hash" /\ PlayerNew)
    \/ \E interaction \in ShownInteractions : PlayerInteract(interaction)
    \/ PlayerFinalize

SpecRender == InitRender /\ [][NextRender]_vars

\* ---- two players over one shared pattern ----
\* The interactions a shared pattern and the streams of its players are drawn from.
SharedInteractions ==
    {i \in Interactions :
        /\ i.kind = "Message"
        /\ i.hierarchy = "Atomic" \/ <<i.label, i.type_name, i.length>> = BaseVariant}

InitShared ==
    /\ InitCommon
    /\ rec_live = "none"
    /\ alt = <<"b", "u8", LengthNone>>
    /\ new_arg \in UNION {[1..n -> SharedInteractions] : n \in 0..MaxShared}

SharedNew(k) ==
    /\ pattern.some
    /\ shared[k].live = "none"
    /\ LET out == PlyOut("new", "ok", NoInteraction, NoInteraction, "none") IN
         /\ shared' = Players_update(shared, k, PatternPlayer_new, "live", out)
         /\ alone' = [alone EXCEPT ![k] = Player(PatternPlayer_new, "live", out)]
    /\ UNCHANGED <<pvars, svars, lvars>>

\* A call on player k; the same call is made on the player that runs alone,
\* whose pattern is the sequence the shared pattern was built from.
SharedInteract(k, interaction) ==
    /\ shared[k].live = "live"
    /\ LET r == PatternPlayer_interact(shared[k].self, pattern.interactions, interaction)
           a == PatternPlayer_interact(alone[k].self, new_arg, interaction)
       IN /\ shared' = Players_update(shared, k, r.self, "live", r.out)
          /\ alone' = [alone EXCEPT ![k] = Player(a.self, "live", a.out)]
    /\ UNCHANGED <<pvars, svars, lvars>>

SharedAbort(k) ==
    /\ shared[k].live = "live"
    /\ LET r == PatternPlayer_abort(shared[k].self)
           a == PatternPlayer_abort(alone[k].self)
       IN /\ shared' = Players_update(shared, k, r.self, "live", r.out)
          /\ alone' = [alone EXCEPT ![k] = Player(a.self, "live", a.out)]
    /\ UNCHANGED <<pvars, svars, lvars>>

SharedFinalize(k) ==
    /\ shared[k].live = "live"
    /\ LET r == PatternPlayer_finalize(shared[k].self, pattern.interactions)
           a == PatternPlayer_finalize(alone[k].self, new_arg)
       IN /\ shared' = Players_update(shared, k, r.self, "gone", r.out)
          /\ alone' = [alone EXCEPT ![k] = Player(a.self, "gone", a.out)]
    /\ UNCHANGED <<pvars, svars, lvars>>

NextShared ==
    \/ NextValidate
    \/ \E k \in Players : SharedNew(k)
    \/ \E k \in Players : \E interaction \in SharedInteractions : SharedInteract(k, interaction)
    \/ \E k \in Players : SharedAbort(k)
    \/ \E k \in Players : SharedFinalize(k)

SpecShared == InitShared /\ [][NextShared]_vars

\* ---- the sponge ----
\* ---- its loops, one iteration or one recursive call per step ----
\* absorb_unchecked is entered: squeeze_pos is reset and the loop is reached.
BeginAbsorb(input) ==
    /\ sp_live = "live"
    /\ run.op = "none"
    /\ run' = Run("absorb", absorb_reset(sp), input, 0, 0, "none", input, 0)
    /\ UNCHANGED <<pvars, svars, cvars>>

\* The loop condition holds: one iteration. A failed assertion ends the call.
AbsorbIter ==
    /\ run.op = "absorb"
    /\ run.input # <<>>
    /\ LET r == absorb_iter(run.self, run.input) IN
         run' = IF r.did = "AssertFailed"
                THEN NoRun
                ELSE [run EXCEPT !.self = r.self, !.input = r.input, !.last = r.did]
    /\ UNCHANGED <<pvars, svars, cvars>>

\* The loop condition fails: absorb_unchecked returns.
AbsorbReturn ==
    /\ run.op = "absorb"
    /\ run.input = <<>>
    /\ sp' = run.self
    /\ run' = NoRun
    /\ UNCHANGED <<pvars, sp_live, sp_out, sp_prev, fresh, pending, cvars>>

\* squeeze_unchecked is called from outside on an output slice of n units.
BeginSqueeze(n) ==
    /\ sp_live = "live"
    /\ run.op = "none"
    /\ run' = Run("squeeze", sp, <<>>, n, 0, "none", <<>>, n)
    /\ UNCHANGED <<pvars, svars, cvars>>

\* The call at the bottom of the recursion runs up to its own recursive call,
\* or returns at once on an empty slice.
SqueezeCall ==
    /\ run.op = "squeeze"
    /\ LET r == squeeze_call(run.self, run.n) IN
         run' = IF r.did = "AssertFailed"
                THEN NoRun
                ELSE [run EXCEPT !.op = IF r.did = "return" THEN "unwind" ELSE "squeeze",
                                 !.self = r.self, !.n = r.n, !.last = r.did,
                                 !.calls = run.calls + 1]
    /\ UNCHANGED <<pvars, svars, cvars>>

\* The calls return one into the other, each one being in tail position.
SqueezeReturn ==
    /\ run.op = "unwind"
    /\ sp' = run.self
    /\ run' = NoRun
    /\ UNCHANGED <<pvars, sp_live, sp_out, sp_prev, fresh, pending, cvars>>

SpongeNew(C, iv) ==
    /\ sp_live = "none"
    /\ LET r == DuplexSponge_new(C, iv) IN
         /\ sp' = r.self
         /\ sp_out' = r.out
         /\ sp_live' = IF r.out.result = "ok" THEN "live" ELSE "none"
         /\ pending' = [new |-> r.out.result = "ok", ratchet |-> FALSE]
    /\ sp_prev' = sp_out.op
    /\ fresh' = FALSE
    /\ UNCHANGED <<pvars, cvars, lvars>>

Absorb(input) ==
    /\ sp_live = "live"
    /\ LET r == absorb_unchecked(sp, input) IN
         /\ sp' = r.self
         /\ sp_out' = r.out
    /\ sp_prev' = sp_out.op
    /\ fresh' = TRUE
    /\ UNCHANGED <<sp_live, pending, pvars, cvars, lvars>>

Squeeze(n) ==
    /\ sp_live = "live"
    /\ LET r == squeeze_unchecked(sp, n) IN
         /\ sp' = r.self
         /\ sp_out' = r.out
    /\ sp_prev' = sp_out.op
    /\ fresh' = IF n > 0 THEN FALSE ELSE fresh
    /\ pending' = IF n > 0 THEN [new |-> FALSE, ratchet |-> FALSE] ELSE pending
    /\ UNCHANGED <<sp_live, pvars, cvars, lvars>>

Ratchet ==
    /\ sp_live = "live"
    /\ LET r == ratchet_unchecked(sp) IN
         /\ sp' = r.self
         /\ sp_out' = r.out
    /\ sp_prev' = sp_out.op
    /\ pending' = [pending EXCEPT !.ratchet = TRUE]
    /\ UNCHANGED <<sp_live, fresh, pvars, cvars, lvars>>

NextSponge ==
    \/ \E C \in PermutationTypes, iv \in [1..IvLen -> Unit] : SpongeNew(C, iv)
    \/ \E input \in UnitSeqsUpTo(MaxIn) : Absorb(input)
    \/ \E n \in 0..MaxOut : Squeeze(n)
    \/ Ratchet

SpecSponge == InitSponge /\ [][NextSponge]_vars

\* The sponge with its absorb and squeeze calls taken one iteration at a time;
\* a call that has started keeps running until it returns.
NextLoop ==
    \/ \E C \in PermutationTypes, iv \in [1..IvLen -> Unit] : SpongeNew(C, iv)
    \/ \E input \in UnitSeqsUpTo(MaxIn) : BeginAbsorb(input)
    \/ AbsorbIter
    \/ AbsorbReturn
    \/ \E n \in 0..MaxOut : BeginSqueeze(n)
    \/ SqueezeCall
    \/ SqueezeReturn

SpecLoop ==
    /\ InitSponge
    /\ [][NextLoop]_vars
    /\ WF_vars(AbsorbIter)
    /\ WF_vars(AbsorbReturn)
    /\ WF_vars(SqueezeCall)
    /\ WF_vars(SqueezeReturn)

(***************************************************************************)
(* Properties of the recorder and the player (checked under SpecPattern)   *)
(***************************************************************************)
\* Two interactions differ in at least one of their five fields.
Differs(c, e) ==
    \/ c.hierarchy # e.hierarchy
    \/ c.kind # e.kind
    \/ c.label # e.label
    \/ c.type_name # e.type_name
    \/ c.length # e.length

IsPrefix(s, t) == Len(s) <= Len(t) /\ s = SubSeq(t, 1, Len(s))

\* C1: on a player over P that is only given interact calls and then
\* finalize, every call succeeds exactly when the stream equals P: an interact
\* succeeds only while the stream is a prefix of P, it fails only on an extra
\* or a differing interaction, and finalize succeeds exactly when no interact
\* failed and the accepted stream is the whole of P.
C1_PlayerAcceptsExactlyPattern ==
    LET P == pattern.interactions IN
    /\ (ply_out.op = "interact" /\ ply_out.result = "ok") => IsPrefix(played, P)
    /\ (ply_out.op = "interact" /\ ply_out.result = "NoMoreExpected") => Len(played) = Len(P)
    /\ (ply_out.op = "interact" /\ ply_out.result = "Mismatch") =>
           /\ Len(played) < Len(P)
           /\ Differs(ply_out.received, P[Len(played) + 1])
    /\ (ply_out.op = "interact" /\ how # "abort") =>
           \/ ply_out.result \in {"ok", "NoMoreExpected", "Mismatch"}
           \/ ply_out.result = "AlreadyFinalized" /\ how = "interact" /\ ~allok
    /\ (ply_out.op = "finalize" /\ how # "abort") =>
           (allok <=> (how # "interact" /\ played = P))

\* C1 witness: a stream of at least two interactions was accepted and finalize succeeded.
C1_Witness ==
    /\ ply_out.op = "finalize"
    /\ ply_out.result = "ok"
    /\ allok
    /\ Len(played) >= 2
    /\ played = pattern.interactions

\* C2: the pattern the recorder returns holds exactly the recorded sequence,
\* and a player over it that is fed that sequence accepts each interaction and
\* finalizes with its cursor at the sequence's length.
C2_RecordThenReplay ==
    /\ [](pattern.some => pattern.interactions = rec_log)
    /\ [][\A c \in Interactions :
            (/\ ply_live = "live"
             /\ ~ply.finalized
             /\ IsPrefix(played, rec_log)
             /\ Len(played) < Len(rec_log)
             /\ c = rec_log[Len(played) + 1]
             /\ PlayerInteract(c))
            => (ply_out'.result = "ok" /\ played' = Append(played, c))]_vars
    /\ [][(ply_live = "live" /\ ~ply.finalized /\ played = rec_log /\ PlayerFinalize)
            => (/\ ply_out'.result = "ok"
                /\ ply_out'.drop = "ok"
                /\ ply'.position = Len(rec_log))]_vars

\* C2 witness: Begin, Atomic, End was recorded, returned, replayed and finalized.
C2_Witness ==
    /\ rec_out.op = "finalize"
    /\ rec_out.result = "ok"
    /\ Len(rec_log) = 3
    /\ rec_log[1].hierarchy = "Begin"
    /\ rec_log[2].hierarchy = "Atomic"
    /\ played = rec_log
    /\ ply_out.op = "finalize"
    /\ ply_out.result = "ok"
    /\ ply.position = 3

\* C7: interact on an unfinalized player whose cursor i is below len(P): a
\* candidate differing from P[i] in any field fails reporting the candidate
\* and P[i], leaves the cursor at i and marks the player finalized; a
\* candidate equal to P[i] moves the cursor to i+1 and leaves finalized false.
C7_InteractMismatch ==
    [][\A c \in Interactions :
        (/\ ply_live = "live"
         /\ ~ply.finalized
         /\ ply.position < Len(pattern.interactions)
         /\ ply_out'.received = c
         /\ PlayerInteract(c))
        => LET expected == pattern.interactions[ply.position + 1] IN
           IF Differs(c, expected)
           THEN /\ ply_out'.result = "Mismatch"
                /\ ply_out'.received = c
                /\ ply_out'.expected = expected
                /\ ply'.position = ply.position
                /\ ply'.finalized
           ELSE /\ ply_out'.result = "ok"
                /\ ply'.position = ply.position + 1
                /\ ~ply'.finalized]_vars

\* C7 witness: a candidate that differs from the expected interaction in its
\* type name only was rejected at a cursor above 0.
C7_Witness ==
    /\ ply_out.op = "interact"
    /\ ply_out.result = "Mismatch"
    /\ ply.position > 0
    /\ ply.finalized
    /\ ply_out.received.type_name # ply_out.expected.type_name
    /\ [ply_out.received EXCEPT !.type_name = "-"] = [ply_out.expected EXCEPT !.type_name = "-"]

\* C8: interact on an unfinalized player whose cursor equals len(P) fails with
\* "no more expected interactions", marks the player finalized and leaves the
\* cursor unchanged.
C8_InteractPastEnd ==
    [][\A c \in Interactions :
        (/\ ply_live = "live"
         /\ ~ply.finalized
         /\ ply.position = Len(pattern.interactions)
         /\ ply_out'.received = c
         /\ PlayerInteract(c))
        => (/\ ply_out'.result = "NoMoreExpected"
            /\ ply_out'.received = c
            /\ ply'.finalized
            /\ ply'.position = ply.position)]_vars

\* C8 witness: an extra interaction was received after a non-empty pattern was consumed.
C8_Witness ==
    /\ ply_out.op = "interact"
    /\ ply_out.result = "NoMoreExpected"
    /\ ply.position = Len(pattern.interactions)
    /\ ply.position > 0
    /\ ply.finalized

\* C9: a player is discarded with the failure "Dropped unfinalized transcript"
\* exactly when its finalized flag is false, whatever its cursor; a player that
\* finalize, abort or a failed interact marked finalized is discarded quietly.
C9_PlayerDrop ==
    ply_live = "gone" =>
        /\ ply_out.drop \in {"ok", "DroppedUnfinalized"}
        /\ (ply_out.drop = "DroppedUnfinalized") <=> ~ply.finalized
        /\ how \in {"finalize", "abort", "interact"} => ply_out.drop = "ok"
        /\ ply_out.op = "drop" => ply_out.result = ply_out.drop

\* C9 witness: a player that had consumed part of its pattern was dropped unfinalized.
C9_Witness ==
    /\ ply_live = "gone"
    /\ ply_out.op = "drop"
    /\ ply_out.result = "DroppedUnfinalized"
    /\ ~ply.finalized
    /\ ply.position > 0
    /\ ply.position < Len(pattern.interactions)

\* C10: discarding a PatternState on which finalize has not been called (and
\* which was not aborted) raises a failure.
C10_RecorderDropFails ==
    (rec_out.op = "drop" /\ ~rec.finalized) => rec_out.result # "ok"

(***************************************************************************)
(* Properties of InteractionPattern::new (checked under SpecValidate)      *)
(***************************************************************************)
\* The interaction at 0-based index k of s.
At(s, k) == s[k + 1]

\* How many interactions of s at the indices lo..hi have hierarchy h.
Count(s, h, lo, hi) == Cardinality({i \in lo..hi : At(s, i).hierarchy = h})

\* The Begin at index j is still open when the interaction at index k is
\* reached: between them no End is left without a Begin of its own.
OpenAt(s, j, k) ==
    /\ j < k
    /\ At(s, j).hierarchy = "Begin"
    /\ \A m \in (j + 1)..(k - 1) : Count(s, "End", j + 1, m) <= Count(s, "Begin", j + 1, m)

\* The index of the innermost Begin open at index k, or -1.
InnerOpen(s, k) ==
    LET open == {j \in 0..(k - 1) : OpenAt(s, j, k)} IN
    IF open = {} THEN -1 ELSE CHOOSE j \in open : \A i \in open : i <= j

\* The interaction at index k breaks a rule of the nesting.
Bad(s, k) ==
    LET j == InnerOpen(s, k) IN
    CASE At(s, k).hierarchy = "End" -> j = -1 \/ ~closes(At(s, k), At(s, j))
      [] At(s, k).hierarchy = "Atomic" ->
            j # -1 /\ At(s, j).kind # "Protocol" /\ At(s, j).kind # At(s, k).kind
      [] OTHER -> FALSE

NoneBadBefore(s, k) == \A i \in 0..(k - 1) : ~Bad(s, i)

\* InteractionPattern::new has been called on new_arg.
NewCalled == rec_live = "none" /\ (pattern.some \/ new_out.tag # "Ok")

\* C11: when the scan, with nothing failed before, reaches an End while no
\* Begin is open, new fails with MissingBegin carrying that End and its index.
C11_MissingBeginAtEnd ==
    NewCalled =>
        \A k \in 0..(Len(new_arg) - 1) :
            (/\ NoneBadBefore(new_arg, k)
             /\ At(new_arg, k).hierarchy = "End"
             /\ InnerOpen(new_arg, k) = -1)
            => (~pattern.some /\ new_out = MissingBegin(k, At(new_arg, k)))

\* C11 witness: an End with no open Begin was met after a closed group.
C11_Witness ==
    /\ NewCalled
    /\ new_out.tag = "MissingBegin"
    /\ new_out.position = 2
    /\ Len(new_arg) > 3
    /\ At(new_arg, 0).hierarchy = "Begin"

\* C12: when every interaction passes, new fails with MissingEnd carrying the
\* innermost Begin still open and its index if there is one, and returns the
\* pattern if there is none.
C12_MissingEndInnermost ==
    (NewCalled /\ NoneBadBefore(new_arg, Len(new_arg))) =>
        LET j == InnerOpen(new_arg, Len(new_arg)) IN
        IF j # -1
        THEN ~pattern.some /\ new_out = MissingEnd(j, At(new_arg, j))
        ELSE pattern = SomePattern(new_arg) /\ new_out = ValidateOk

\* C12 witness: two different Begins were left open and the inner one was reported.
C12_Witness ==
    /\ NewCalled
    /\ new_out.tag = "MissingEnd"
    /\ new_out.position = 2
    /\ OpenAt(new_arg, 0, Len(new_arg))
    /\ At(new_arg, 0) # At(new_arg, 2)
    /\ new_out.begin = At(new_arg, 2)

\* C13: an Atomic reached with nothing failed before is rejected with
\* InvalidKind (the enclosing Begin, its index, the Atomic, its index) exactly
\* when a Begin is open whose kind is neither Protocol nor the Atomic's kind;
\* with no open Begin, or inside a Protocol Begin, it is accepted.
C13_AtomicKindRule ==
    NewCalled =>
        \A k \in 0..(Len(new_arg) - 1) :
            (NoneBadBefore(new_arg, k) /\ At(new_arg, k).hierarchy = "Atomic") =>
                LET j == InnerOpen(new_arg, k) IN
                IF j # -1 /\ At(new_arg, j).kind # "Protocol"
                          /\ At(new_arg, j).kind # At(new_arg, k).kind
                THEN /\ ~pattern.some
                     /\ new_out = InvalidKind(j, At(new_arg, j), k, At(new_arg, k))
                ELSE ~(new_out.tag = "InvalidKind" /\ new_out.interaction_position = k)

\* C13 witness: an Atomic of another kind was rejected inside a nested
\* non-Protocol Begin.
C13_Witness ==
    /\ NewCalled
    /\ new_out.tag = "InvalidKind"
    /\ new_out.begin_position = 1
    /\ new_out.interaction_position = 3
    /\ new_out.begin.kind = "Message"
    /\ new_out.interaction.kind = "Protocol"

\* C14: when the End reached, with nothing failed before, does not close the
\* innermost open Begin, new fails with MismatchedBeginEnd carrying that Begin
\* and its index and the End and the End's index.
C14_MismatchedPositions ==
    NewCalled =>
        \A k \in 0..(Len(new_arg) - 1) :
            LET j == InnerOpen(new_arg, k) IN
            (/\ NoneBadBefore(new_arg, k)
             /\ At(new_arg, k).hierarchy = "End"
             /\ j # -1
             /\ ~closes(At(new_arg, k), At(new_arg, j)))
            => new_out = MismatchedBeginEnd(j, At(new_arg, j), k, At(new_arg, k))

\* The index of the End that closes the Begin at index j of a balanced sequence.
MatchingEnd(s, j) ==
    CHOOSE m \in (j + 1)..(Len(s) - 1) :
        /\ Count(s, "End", j + 1, m) = Count(s, "Begin", j + 1, m) + 1
        /\ \A i \in (j + 1)..(m - 1) :
              Count(s, "End", j + 1, i) <= Count(s, "Begin", j + 1, i)

\* C15: in a pattern that new accepts, every interaction between a Begin of a
\* kind other than Protocol and its matching End has that Begin's kind.
C15_HomogeneousGroups ==
    (NewCalled /\ pattern.some) =>
        \A j \in 0..(Len(new_arg) - 1) :
            (At(new_arg, j).hierarchy = "Begin" /\ At(new_arg, j).kind # "Protocol") =>
                \A i \in (j + 1)..(MatchingEnd(new_arg, j) - 1) :
                    At(new_arg, i).kind = At(new_arg, j).kind

(***************************************************************************)
(* Properties of the renderings (checked under SpecRender)                 *)
(***************************************************************************)
\* The validated patterns of the rendering model, and their canonical texts.
ShownValid ==
    {q \in UNION {[1..k -> ShownInteractions] : k \in 0..MaxShow} : validate(q).tag = "Ok"}

Canon ==
    {[interactions |-> q, text |-> InteractionPattern_fmt(SomePattern(q), TRUE)] :
        q \in ShownValid}

\* Two sequences have the same length and agree everywhere in hierarchy,
\* kind, label and length.
AgreeCanon(p, q) ==
    /\ Len(p) = Len(q)
    /\ \A i \in 1..Len(p) :
          /\ p[i].hierarchy = q[i].hierarchy
          /\ p[i].kind = q[i].kind
          /\ p[i].label = q[i].label
          /\ p[i].length = q[i].length

\* The sequences that agree with the first k interactions of p in hierarchy,
\* kind, label and length.
RECURSIVE Retyped(_, _)
Retyped(p, k) ==
    IF k = 0 THEN {<<>>}
    ELSE {Append(q, x) :
            q \in Retyped(p, k - 1),
            x \in {y \in ShownInteractions : AgreeCanon(<<y>>, <<p[k]>>)}}

\* The validated patterns that differ from the validated pattern p in type
\* names and in nothing else.
Twins(p) == {q \in Retyped(p, Len(p)) : q # p /\ validate(q).tag = "Ok"}

\* C16: the canonical rendering of a validated pattern equals that of another
\* validated pattern exactly when the two have the same number of interactions
\* and agree at every position in hierarchy, kind, label and length; and it is
\* never a prefix of the canonical rendering of a longer pattern.
C16_CanonicalInjective ==
    (shown.op = "fmt" /\ shown.alternate) =>
        \A q \in Canon :
            /\ (q.text = shown.text) <=> AgreeCanon(pattern.interactions, q.interactions)
            /\ Len(pattern.interactions) < Len(q.interactions)
                  => ~IsPrefix(shown.text, q.text)

\* C16 witness: the canonical rendering of a group with an atomic child was
\* taken, and another validated pattern renders to the same text.
C16_Witness ==
    /\ shown.op = "fmt"
    /\ shown.alternate
    /\ Len(pattern.interactions) = 3
    /\ pattern.interactions[1].hierarchy = "Begin"
    /\ pattern.interactions[2].hierarchy = "Atomic"
    /\ \E q \in Canon : q.interactions # pattern.interactions /\ q.text = shown.text

\* C17: a validated pattern that differs from the pattern at hand in type
\* names only has the same canonical rendering and the same pattern_hash, and
\* a player over the pattern at hand rejects its replay: the first interaction
\* of the replay whose type name differs fails, and the replay is never accepted.
C17_TypeNamesNotCommitted ==
    /\ [](shown.op = "pattern_hash" =>
            \A q \in Twins(pattern.interactions) :
                /\ InteractionPattern_fmt(SomePattern(q), TRUE) = shown.text
                /\ pattern_hash(SomePattern(q)) = shown.hash
                /\ (ply_out.result = "ok" => played # q))
    /\ [][\A c \in ShownInteractions :
            (/\ ply_live = "live"
             /\ ~ply.finalized
             /\ ply_out'.received = c
             /\ ply.position < Len(pattern.interactions)
             /\ c # pattern.interactions[ply.position + 1]
             /\ PlayerInteract(c)
             /\ \E q \in Twins(pattern.interactions) :
                   IsPrefix(played, q) /\ q[Len(played) + 1] = c)
            => (ply_out'.result = "Mismatch" /\ ply'.finalized)]_vars

\* C17 witness: the replay of a pattern differing in the type name of a group's
\* Begin and End only was rejected at its first interaction, after the hash
\* the two share was taken.
C17_Witness ==
    /\ shown.op = "pattern_hash"
    /\ ply_out.op = "interact"
    /\ ply_out.result = "Mismatch"
    /\ ply.position = 0
    /\ ply_out.expected.hierarchy = "Begin"
    /\ \E q \in Twins(pattern.interactions) :
          /\ q[1] = ply_out.received
          /\ pattern_hash(SomePattern(q)) = shown.hash

\* The nesting depth at which the interaction at 0-based index i of s is shown.
Depth(s, i) ==
    Count(s, "Begin", 0, i - 1) - Count(s, "End", 0, i - 1)
        - (IF At(s, i).hierarchy = "End" THEN 1 ELSE 0)

\* The lines of s from index i on: position, two spaces per level of nesting
\* if indented, the interaction's fields in the given mode, newline.
RECURSIVE ExpectedLines(_, _, _, _)
ExpectedLines(s, i, alternate, indented) ==
    IF i >= Len(s) THEN <<>>
    ELSE pad_zero(to_string(i), Len(to_string(IF Len(s) = 0 THEN 0 ELSE Len(s) - 1)))
         \o <<" ">>
         \o (IF indented THEN [k \in 1..(2 * Depth(s, i)) |-> " "] ELSE <<>>)
         \o Interaction_fmt(At(s, i), alternate) \o <<"\n">>
         \o ExpectedLines(s, i + 1, alternate, indented)

\* C18 as stated: in the canonical rendering an interaction's line holds
\* hierarchy, kind, label length, label and length and no indentation, whatever
\* its depth; indentation and the type name come with the readable rendering only.
C18_CanonicalNotIndented ==
    shown.op = "fmt" =>
        shown.text = fmt_header(Len(pattern.interactions))
                        \o ExpectedLines(pattern.interactions, 0, shown.alternate,
                                         ~shown.alternate)

\* C18 amended: in both renderings an interaction's line is indented by two
\* spaces per level of nesting; the canonical line then holds hierarchy, kind,
\* label length, label and length, the readable one hierarchy, kind, label,
\* length and type name.
C18_IndentedInBothModes ==
    shown.op = "fmt" =>
        shown.text = fmt_header(Len(pattern.interactions))
                        \o ExpectedLines(pattern.interactions, 0, shown.alternate, TRUE)

\* C18 witness: the canonical rendering of a group with an atomic child was
\* taken: the child's line starts with its position and three spaces.
C18_Witness ==
    /\ shown.op = "fmt"
    /\ shown.alternate
    /\ Len(pattern.interactions) = 3
    /\ pattern.interactions[1].hierarchy = "Begin"
    /\ pattern.interactions[2].hierarchy = "Atomic"
    /\ \E k \in 1..(Len(shown.text) - 4) :
          SubSeq(shown.text, k, k + 4) = <<"1", " ", " ", " ", "A">>

(***************************************************************************)
(* Properties of the sponge (checked under SpecSponge)                     *)
(***************************************************************************)
\* The state after j permutes.
RECURSIVE PermuteTimes(_, _)
PermuteTimes(state, j) == IF j = 0 THEN state ELSE PermuteTimes(permute(state), j - 1)

HasPermute(events) == \E k \in 1..Len(events) : events[k].e = "permute"

\* C3: from every reachable sponge state, absorbing a and then b leaves the
\* sponge (permutation state, absorb_pos, squeeze_pos) as one absorb of a ++ b does.
C3_AbsorbAssociative ==
    sp_live = "live" =>
        \A a \in UnitSeqsUpTo(MaxIn) :
            \A b \in UnitSeqsUpTo(MaxIn - Len(a)) :
                absorb_unchecked(absorb_unchecked(sp, a).self, b).self
                    = absorb_unchecked(sp, a \o b).self

\* C3 witness: an absorb that followed an absorb began at the rate boundary
\* the first had reached, so it permuted before writing.
C3_Witness ==
    /\ sp_out.op = "absorb"
    /\ sp_prev = "absorb"
    /\ sp_out.n > 0
    /\ sp_out.events[1].e = "permute"
    /\ sp.absorb_pos > 0

\* C4: the first non-empty squeeze after an absorb permutes before it reads
\* any unit, and what it returns is read from the rate of the permuted state:
\* unit k of the output comes from the state after ceil(k / R) permutes.
C4_SqueezeAfterAbsorbPermutes ==
    [][\A n \in 1..MaxOut :
        (/\ sp_live = "live"
         /\ fresh
         /\ sp_out'.op = "squeeze"
         /\ sp_out'.n = n
         /\ Squeeze(n))
        => LET ev == sp_out'.events IN
           /\ \E k \in 1..Len(ev) :
                 /\ ev[k].e = "permute"
                 /\ \A j \in 1..(k - 1) : ev[j].e # "read"
           /\ Len(sp_out'.output) = n
           /\ \A k \in 1..n :
                 sp_out'.output[k]
                    = PermuteTimes(sp.permutation, ((k - 1) \div R) + 1)[(k - 1) % R]]_vars

\* C4 witness: a non-empty squeeze directly after a non-empty absorb permuted
\* and then read from the rate.
C4_Witness ==
    /\ sp_out.op = "squeeze"
    /\ sp_prev = "absorb"
    /\ sp_out.n > 0
    /\ sp_out.events[2].e = "permute"
    /\ sp.squeeze_pos > 0

\* C5: a squeeze of zero units leaves permutation state, absorb_pos and
\* squeeze_pos as they were, permutes nothing and returns nothing.
C5_SqueezeZeroNoop ==
    [][(/\ sp_live = "live"
        /\ sp_out'.op = "squeeze"
        /\ sp_out'.n = 0
        /\ Squeeze(0))
       => (/\ sp' = sp
           /\ ~HasPermute(sp_out'.events)
           /\ sp_out'.output = <<>>
           /\ fresh' = fresh)]_vars

\* C5 witness: a zero-length squeeze was made while an absorb was in progress
\* and squeeze_pos was at the sentinel R, where a squeeze that went on would
\* reset absorb_pos and permute.
C5_Witness ==
    /\ sp_out.op = "squeeze"
    /\ sp_out.n = 0
    /\ sp.squeeze_pos = R
    /\ sp.absorb_pos > 0

\* The events of a squeeze show a permute before the first read.
PermutesBeforeReading(ev) ==
    \E k \in 1..Len(ev) :
        /\ ev[k].e = "permute"
        /\ \A j \in 1..(k - 1) : ev[j].e # "read"

\* C19: from any sponge state s, ratchet permutes exactly once and leaves the
\* rate units zero, the capacity units those of permute(s) and squeeze_pos = R;
\* the next non-empty squeeze permutes again before it produces output.
C19_Ratchet ==
    /\ [][(sp_live = "live" /\ sp_out'.op = "ratchet" /\ Ratchet)
          => (/\ Cardinality({k \in 1..Len(sp_out'.events) :
                                 sp_out'.events[k].e = "permute"}) = 1
              /\ \A i \in 0..(R - 1) : sp'.permutation[i] = 0
              /\ \A i \in R..(N - 1) : sp'.permutation[i] = permute(sp.permutation)[i]
              /\ sp'.squeeze_pos = R)]_vars
    /\ [][\A n \in 1..MaxOut :
            (/\ sp_live = "live"
             /\ pending.ratchet
             /\ sp_out'.op = "squeeze"
             /\ sp_out'.n = n
             /\ Squeeze(n))
            => (/\ PermutesBeforeReading(sp_out'.events)
                /\ sp_out'.output[1] = permute(sp.permutation)[0])]_vars

\* C19 witness: a non-empty squeeze directly after a ratchet permuted and then
\* read more than one rate's worth of output.
C19_Witness ==
    /\ sp_out.op = "squeeze"
    /\ sp_out.n > R
    /\ sp_prev = "ratchet"
    /\ sp_out.events[2].e = "permute"
    /\ ~pending.ratchet

\* C20: DuplexSponge::new(iv) over a permutation with N > R leaves the rate
\* units zero, the iv in capacity units and nowhere else, absorb_pos = 0 and
\* squeeze_pos = R, and the first non-empty squeeze after it permutes before
\* reading; over a permutation with N <= R the construction fails.
C20_New ==
    /\ [][\A C \in PermutationTypes : \A iv \in [1..IvLen -> Unit] :
            (sp_live = "none" /\ sp_out'.op = "new" /\ SpongeNew(C, iv)) =>
                IF C.N > C.R
                THEN /\ sp_out'.result = "ok"
                     /\ sp_live' = "live"
                     /\ \A i \in 0..(R - 1) : sp'.permutation[i] = 0
                     /\ \A k \in 1..IvLen : sp'.permutation[R + k - 1] = iv[k]
                     /\ \A i \in (R + IvLen)..(N - 1) : sp'.permutation[i] = 0
                     /\ sp'.absorb_pos = 0
                     /\ sp'.squeeze_pos = R
                ELSE /\ sp_out'.result = "CapacityNotPositive"
                     /\ sp_live' = "none"]_vars
    /\ [][\A n \in 1..MaxOut :
            (/\ sp_live = "live"
             /\ pending.new
             /\ sp_out'.op = "squeeze"
             /\ sp_out'.n = n
             /\ Squeeze(n))
            => (/\ PermutesBeforeReading(sp_out'.events)
                /\ sp_out'.output[1] = permute(sp.permutation)[0])]_vars

\* C20 witness: a sponge was built with a non-zero iv after a construction
\* without capacity had failed, and the first call on it was a non-empty
\* squeeze, which permuted before reading.
C20_Witness ==
    /\ sp_out.op = "squeeze"
    /\ sp_out.n > 0
    /\ sp_prev = "new"
    /\ sp_out.events[2].e = "permute"
    /\ sp.absorb_pos = 0

\* C21: in every state of a sponge at most one of absorbing and squeezing is
\* in progress: absorb_pos = 0 or squeeze_pos = R.
C21_OneInProgress ==
    sp_live = "live" => (sp.absorb_pos = 0 \/ sp.squeeze_pos = R)

\* C21 witness: a squeeze is in progress in the middle of the rate, right
\* after an absorb that had been in progress.
C21_Witness ==
    /\ sp_out.op = "squeeze"
    /\ sp_prev = "absorb"
    /\ sp.squeeze_pos > 0
    /\ sp.squeeze_pos < R
    /\ sp.absorb_pos = 0

\* C22: absorb_pos and squeeze_pos stay in [0, R], neither assertion fails,
\* every unit that absorb writes, squeeze reads or ratchet zeroes lies below R,
\* and a call that does not permute leaves the capacity units [R, N) as they were.
C22_RateOnly ==
    /\ [](sp_live = "live" =>
            /\ sp.absorb_pos \in 0..R
            /\ sp.squeeze_pos \in 0..R
            /\ sp_out.result = "ok"
            /\ \A k \in 1..Len(sp_out.events) :
                  sp_out.events[k].e \in {"write", "read", "zero"} =>
                      /\ sp_out.events[k].at >= 0
                      /\ sp_out.events[k].at + sp_out.events[k].len <= R)
    /\ [][(sp_live = "live" /\ ~HasPermute(sp_out'.events))
          => \A i \in R..(N - 1) : sp'.permutation[i] = sp.permutation[i]]_vars

\* C22 witness: an absorb longer than the rate wrote up to the end of the rate,
\* permuted and went on writing at unit 0, with a capacity that is not zero.
C22_Witness ==
    /\ sp_out.op = "absorb"
    /\ sp_out.n > R
    /\ HasPermute(sp_out.events)
    /\ \E k \in 1..Len(sp_out.events) :
          sp_out.events[k].e = "write" /\ sp_out.events[k].at + sp_out.events[k].len = R
    /\ \E i \in R..(N - 1) : sp.permutation[i] # 0

\* C30: from every reachable sponge state, a squeeze of m units followed by a
\* squeeze of n units gives the same m + n units in order and the same final
\* sponge as one squeeze of m + n units, zero lengths included.
C30_SqueezeSplit ==
    sp_live = "live" =>
        \A m \in 0..MaxOut :
            \A n \in 0..(MaxOut - m) :
                LET first == squeeze_unchecked(sp, m)
                    second == squeeze_unchecked(first.self, n)
                    whole == squeeze_unchecked(sp, m + n)
                IN /\ first.out.output \o second.out.output = whole.out.output
                   /\ second.self = whole.self
                   /\ Len(whole.out.output) = m + n

\* C30 witness: a squeeze that followed a squeeze went on in the middle of the
\* rate, used it up and permuted for the rest of its output.
C30_Witness ==
    /\ sp_out.op = "squeeze"
    /\ sp_prev = "squeeze"
    /\ Len(sp_out.events) >= 2
    /\ sp_out.events[2].e = "read"
    /\ sp_out.events[2].at > 0
    /\ HasPermute(sp_out.events)

(***************************************************************************)
(* Claims about the recorder's and the player's calls (SpecPattern)        *)
(***************************************************************************)
\* C25: abort on a recorder or a player succeeds exactly when finalized is
\* false, sets the flag and leaves the recorded sequence and the cursor as
\* they were; every interact, abort and finalize on a finalized object fails
\* with "already finalized", and the flag never returns to false.
C25_Abort ==
    [][/\ (rec_live = "live" /\ rec_out'.op = "abort" /\ RecAbort)
            => IF rec.finalized
               THEN rec_out'.result = "AlreadyFinalized" /\ rec' = rec
               ELSE /\ rec_out'.result = "ok"
                    /\ rec'.finalized
                    /\ rec'.interactions = rec.interactions
       /\ (ply_live = "live" /\ ply_out'.op = "abort" /\ PlayerAbort)
            => IF ply.finalized
               THEN ply_out'.result = "AlreadyFinalized" /\ ply' = ply
               ELSE /\ ply_out'.result = "ok"
                    /\ ply'.finalized
                    /\ ply'.position = ply.position
                    /\ pattern' = pattern
       /\ (/\ rec_live = "live"
           /\ rec.finalized
           /\ \/ rec_out'.op = "abort" /\ RecAbort
              \/ rec_out'.op = "finalize" /\ RecFinalize
              \/ rec_out'.op = "interact" /\ RecInteract(rec_out'.arg))
            => (rec_out'.result = "AlreadyFinalized" /\ rec' = rec /\ ~pattern'.some)
       /\ (/\ ply_live = "live"
           /\ ply.finalized
           /\ \/ ply_out'.op = "abort" /\ PlayerAbort
              \/ ply_out'.op = "finalize" /\ PlayerFinalize
              \/ ply_out'.op = "interact" /\ \E i \in Interactions : PlayerInteract(i))
            => (ply_out'.result = "AlreadyFinalized" /\ ply' = ply)
       /\ rec.finalized => rec'.finalized
       /\ ply.finalized => ply'.finalized]_vars

\* C25 witness: a player aborted in the middle of its pattern refused the
\* interaction the pattern expected next.
C25_Witness ==
    /\ how = "abort"
    /\ ply_out.op = "interact"
    /\ ply_out.result = "AlreadyFinalized"
    /\ ply.finalized
    /\ ply.position > 0
    /\ ply.position < Len(pattern.interactions)

\* C26: PatternState.interact applies the kind rule whatever the hierarchy of
\* the incoming interaction: with an innermost open Begin whose kind is
\* neither Protocol nor the incoming kind the call fails and the recorded
\* sequence stays as it was; otherwise the kind rule does not reject the call.
C26_KindRuleEveryHierarchy ==
    [][\A i \in Interactions :
        (/\ rec_live = "live"
         /\ ~rec.finalized
         /\ rec_out'.arg = i
         /\ RecInteract(i))
        => LET s == rec.interactions
               j == InnerOpen(s, Len(s))
           IN IF j # -1 /\ At(s, j).kind # "Protocol" /\ At(s, j).kind # i.kind
              THEN /\ rec_out'.result = "InvalidKind"
                   /\ rec' = rec
              ELSE rec_out'.result # "InvalidKind"]_vars

\* C26 witness: inside a Protocol Begin that holds an open Message Begin, a
\* Protocol Begin was refused.
C26_Witness ==
    /\ rec_out.op = "interact"
    /\ rec_out.result = "InvalidKind"
    /\ rec_out.arg.hierarchy = "Begin"
    /\ rec_out.arg.kind = "Protocol"
    /\ rec_out.begin.kind = "Message"
    /\ Len(rec.interactions) = 2
    /\ rec.interactions[1].hierarchy = "Begin"
    /\ rec.interactions[1].kind = "Protocol"
    /\ rec_out.begin = rec.interactions[2]

\* C27: PatternState.interact accepts an End only if the recorded sequence has
\* an innermost open Begin with the End's kind, label, type name and length;
\* any other End fails and is not appended, and every accepted interaction is
\* appended at the end of the sequence.
C27_EndClosesInnermost ==
    [][\A i \in Interactions :
        (/\ rec_live = "live"
         /\ ~rec.finalized
         /\ rec_out'.arg = i
         /\ RecInteract(i))
        => LET s == rec.interactions
               j == InnerOpen(s, Len(s))
               matches == /\ j # -1
                          /\ At(s, j).kind = i.kind
                          /\ At(s, j).label = i.label
                          /\ At(s, j).type_name = i.type_name
                          /\ At(s, j).length = i.length
           IN /\ (i.hierarchy = "End" /\ rec_out'.result = "ok") => matches
              /\ (i.hierarchy = "End" /\ ~matches) =>
                    /\ rec_out'.result \in {"MissingBegin", "MismatchedBeginEnd", "InvalidKind"}
                    /\ rec' = rec
              /\ (i.hierarchy = "End" /\ j = -1) => rec_out'.result = "MissingBegin"
              /\ rec_out'.result = "ok" => rec'.interactions = Append(s, i)
              /\ rec_out'.result # "ok" => rec'.interactions = s]_vars

\* C27 witness: inside two open Begins, an End that matches the outer Begin
\* and differs from the inner one was refused.
C27_Witness ==
    /\ rec_out.op = "interact"
    /\ rec_out.result = "MismatchedBeginEnd"
    /\ Len(rec.interactions) = 2
    /\ rec.interactions[1].hierarchy = "Begin"
    /\ rec.interactions[2].hierarchy = "Begin"
    /\ closes(rec_out.arg, rec.interactions[1])
    /\ rec_out.begin = rec.interactions[2]

\* C28: on every recorded sequence the Begin that last_open_begin returns is
\* the one on top of the validator's stack (the innermost open Begin), and
\* finalize on an unfinalized recorder succeeds exactly when no Begin is open
\* and otherwise fails with MissingEnd.
C28_ScanIsStackTop ==
    /\ [](LET s == rec.interactions
              j == InnerOpen(s, Len(s))
              e == validate(s)
          IN /\ rec.interactions = rec_log
             /\ last_open_begin(rec) = IF j = -1 THEN NoInteraction ELSE At(s, j)
             /\ e.tag \in {"Ok", "MissingEnd"}
             /\ last_open_begin(rec) = e.begin
             /\ e.tag = "MissingEnd" => e.position = j)
    /\ [][(rec_live = "live" /\ ~rec.finalized /\ RecFinalize)
            => LET s == rec.interactions
                   j == InnerOpen(s, Len(s))
               IN IF j = -1
                  THEN /\ rec_out'.result = "ok"
                       /\ pattern'.some
                       /\ pattern'.interactions = s
                  ELSE /\ rec_out'.result = "ValidationError"
                       /\ rec_out'.err.tag = "MissingEnd"
                       /\ ~pattern'.some]_vars

\* C28 witness: finalize failed on Begin, Begin, End, where the open Begin is
\* the first one and the last Begin of the sequence is closed.
C28_Witness ==
    /\ rec_out.op = "finalize"
    /\ rec_out.result = "ValidationError"
    /\ Len(rec.interactions) = 3
    /\ rec.interactions[2].hierarchy = "Begin"
    /\ rec.interactions[3].hierarchy = "End"
    /\ last_open_begin(rec) = rec.interactions[1]
    /\ rec.interactions[1] # rec.interactions[2]

\* C29: a player's cursor stays in [0, len(P)], never decreases, and equals
\* the number of successful interact calls, whose arguments in order are the
\* first position interactions of P.
C29_Cursor ==
    /\ [](ply_live # "none" =>
            /\ 0 <= ply.position
            /\ ply.position <= Len(pattern.interactions)
            /\ ply.position = Len(played)
            /\ played = SubSeq(pattern.interactions, 1, ply.position))
    /\ [][ply'.position >= ply.position]_vars

\* C29 witness: the cursor stands at the end of a pattern of three interactions
\* and a further interact was refused.
C29_Witness ==
    /\ ply_out.op = "interact"
    /\ ply_out.result = "NoMoreExpected"
    /\ ply.position = 3
    /\ Len(pattern.interactions) = 3
    /\ Len(played) = 3

(***************************************************************************)
(* Claims about the two ways to a pattern (SpecFallible)                   *)
(***************************************************************************)
\* The index of the first interaction of s that breaks a rule, or -1.
FirstBad(s) ==
    LET bad == {k \in 0..(Len(s) - 1) : Bad(s, k)} IN
    IF bad = {} THEN -1 ELSE CHOOSE k \in bad : \A i \in bad : k <= i

\* C24: InteractionPattern::new always returns: Ok with the pattern, or one
\* error and no pattern, the error being the one of the first interaction in
\* sequence order that breaks a rule (MissingBegin, MismatchedBeginEnd or
\* InvalidKind) or, if none does, MissingEnd for a Begin left open; in
\* PatternState.finalize every such error is a fatal failure that carries the
\* error and no pattern is returned.
C24_FallibleNewFatalFinalize ==
    /\ [](NewCalled =>
            LET s == new_arg
                k == FirstBad(s)
                j == InnerOpen(s, IF k = -1 THEN Len(s) ELSE k)
            IN /\ new_out.tag \in {"Ok", "MissingBegin", "InvalidKind",
                                   "MismatchedBeginEnd", "MissingEnd"}
               /\ pattern.some <=> new_out.tag = "Ok"
               /\ pattern.some => pattern.interactions = s
               /\ CASE k = -1 /\ j = -1 -> new_out.tag = "Ok"
                    [] k = -1 /\ j # -1 ->
                         new_out.tag = "MissingEnd" /\ new_out.position = j
                    [] k # -1 /\ At(s, k).hierarchy = "End" /\ j = -1 ->
                         new_out.tag = "MissingBegin" /\ new_out.position = k
                    [] k # -1 /\ At(s, k).hierarchy = "End" /\ j # -1 ->
                         /\ new_out.tag = "MismatchedBeginEnd"
                         /\ new_out.begin_position = j
                         /\ new_out.end = At(s, k)
                    [] OTHER ->
                         /\ new_out.tag = "InvalidKind"
                         /\ new_out.interaction_position = k)
    /\ [][(rec_live = "live" /\ ~rec.finalized /\ rec_out'.op = "finalize" /\ RecFinalize)
            => LET r == InteractionPattern_new(rec.interactions) IN
               IF r.err.tag = "Ok"
               THEN /\ rec_out'.result = "ok"
                    /\ pattern' = r.pattern
               ELSE /\ rec_out'.result = "ValidationError"
                    /\ rec_out'.err = r.err
                    /\ pattern' = NoPattern]_vars

\* C24 witness: new returned the error of the first of two interactions that
\* break a rule, an Atomic of the wrong kind followed by an End that closes
\* nothing.
C24_Witness ==
    /\ NewCalled
    /\ new_out.tag = "InvalidKind"
    /\ new_out.interaction_position = 1
    /\ ~pattern.some
    /\ Len(new_arg) = 4
    /\ Bad(new_arg, 2)
    /\ At(new_arg, 2).hierarchy = "End"

C31_RatchetKeepsAbsorbPos ==
    [][/\ (sp_live = "live" /\ sp_out'.op = "ratchet" /\ Ratchet)
            => /\ sp'.absorb_pos = sp.absorb_pos
               /\ \A i \in 0..(R - 1) : sp'.permutation[i] = 0
       /\ (/\ sp_live = "live"
           /\ sp_out.op = "ratchet"
           /\ sp_out'.op = "absorb"
           /\ sp_out'.n > 0
           /\ \E input \in UnitSeqsUpTo(MaxIn) : Len(input) = sp_out'.n /\ Absorb(input))
            => LET p == sp.absorb_pos
                   ev == sp_out'.events
               IN IF p = R
                  THEN /\ ev[1].e = "permute"
                       /\ ev[2].e = "write"
                       /\ ev[2].at = 0
                  ELSE /\ ev[1].e = "write"
                       /\ ev[1].at = p]_vars

\* C31 witness: an absorb that followed a ratchet started writing in the
\* middle of the rate, where the absorb before the ratchet had stopped.
C31_Witness ==
    /\ sp_out.op = "absorb"
    /\ sp_prev = "ratchet"
    /\ sp_out.n > 0
    /\ sp_out.events[1].e = "write"
    /\ sp_out.events[1].at > 0
    /\ sp_out.events[1].at < R

(***************************************************************************)
(* Claims about the sponge's loops (SpecLoop)                              *)
(***************************************************************************)
\* C32: every absorb_unchecked and squeeze_unchecked call returns: an absorb
\* iteration consumes at least one input unit, or permutes, consumes none and
\* does not follow another permute; a squeeze call on a non-empty slice fills
\* at least one unit, so a squeeze of n units makes at most n + 1 calls; and
\* the call returns the sponge that the whole call computes.
C32_Terminates ==
    /\ (run.op # "none") ~> (run.op = "none")
    /\ [](run.calls + run.n <= run.want + 1 /\ run.calls <= run.want + 1)
    /\ [][/\ (run.op = "absorb" /\ run'.op = "absorb" /\ run' # run)
               => \/ Len(run'.input) < Len(run.input)
                  \/ /\ run'.input = run.input
                     /\ run'.last = "permute"
                     /\ run.last # "permute"
          /\ (run.op = "squeeze" /\ run'.op = "squeeze" /\ run' # run)
               => run'.n < run.n
          /\ (run.op = "absorb" /\ run'.op = "none")
               => sp' = absorb_unchecked(sp, run.arg).self
          /\ (run.op = "unwind" /\ run'.op = "none")
               => sp' = squeeze_unchecked(sp, run.want).self]_vars

\* C32 witness: a squeeze of two units that started in the middle of the rate
\* filled one unit, permuted, filled the other and reached the empty slice
\* with its third call.
C32_Witness ==
    /\ run.op = "unwind"
    /\ run.want = 2
    /\ run.calls = 3
    /\ sp.squeeze_pos = R - 1
    /\ run.self.squeeze_pos = 1

====
